---- MODULE Spec2Model ----
(***************************************************************************)
(* Model of the heuristic source-pattern scanner of TraceDroid             *)
(* (code/tracedroid/heuristic_detection.py): the rule interface, five of   *)
(* the rule variants, the scanner engine (CodeScanner), the context        *)
(* extractor, the reporter and main().                                     *)
(*                                                                         *)
(* Text is modelled by TLA+ strings.  A source line is the text of the     *)
(* line without its trailing newline; the lines the model feeds to the     *)
(* rules are the members of Alphabet and the lines of IdiomLineLists and   *)
(* SubLineLists below, and every regular expression or substring test of   *)
(* the code is modelled by the set of those lines on which it succeeds.    *)
(* A TLA+ string cannot hold a back-quote, so the back-quotes of the       *)
(* code's detail texts are written as single quotes.                       *)
(*                                                                         *)
(* Spec is the program run by main() on a tree of files, once or twice.    *)
(* SpecRule is one call of a rule's analyze_file on one list of lines, and *)
(* SpecContext one call of the context extractor on one file; the variable *)
(* unit holds the arguments and the result of that call.  SpecSubscribe is *)
(* the loop of StrictRxSubscribeErrorHandlerRule.analyze_file taken one    *)
(* iteration at a time, and SpecSubscribeLive the same loop run by a       *)
(* consumer that takes every step the generator can take.  SpecInstance is *)
(* one instance of UnsafeStartActivityRule or of                           *)
(* StrictWorkerFactoryNullSafetyRule called on several files in turn, the  *)
(* loop of analyze_file taken one line at a time with its locals in unit.  *)
(***************************************************************************)
EXTENDS Integers, Sequences, FiniteSets, TLC

(***************************************************************************)
(* Bounds of the model.                                                    *)
(***************************************************************************)
MaxFiles == 2      \* files in the scanned tree
MaxRules == 2      \* rules in the active rule list
MaxLines == 2      \* lines of a file handed to a single rule
MaxCtxLines == 5   \* lines of a file handed to the context extractor
MaxWindow == 2     \* context window sizes tried besides the default of 10
MaxSubLines == 3   \* lines of a file handed to the loop of the subscribe rule
MaxCalls == 3      \* files one rule instance is called on, one after another

(***************************************************************************)
(* State                                                                   *)
(***************************************************************************)
VARIABLES
    pc,          \* position of the program: start, ctor_failed, constructed,
                 \* main_scan, scanning, raised, returned, reported, exited
    run,         \* 1 for the first execution, 2 for the second
    rules,       \* the rule list handed to CodeScanner
    tree,        \* the files under the root
    rootKind,    \* what the root path is: a directory, a file, or missing
    hashOrder,   \* the set iteration order of this process
    caller,      \* who invoked scan_repository: none, main, api
    idx,         \* index of the next file of the walk
    all_issues,  \* scan_repository's list of Findings
    payloads,    \* history: the payloads consumed from the rules, in order
    calls,       \* history: the analyze_file invocations << path, rule index >>
    opened,      \* history: the paths the scan loop opened
    stdout,      \* what was printed
    raised,      \* the exception that reached the caller, or none
    returned,    \* the value scan_repository returned
    prev,        \* the first execution, once the second has begun
    unit         \* a single call of a rule or of the context extractor

(***************************************************************************)
(* The line alphabet.                                                      *)
(***************************************************************************)
\* The two longest lines fed to the rules; the other lines are written out
\* where they are used.
TERN == "r = isValid != null && (x) ? isValid : false; s = isReady != null && (y) ? isReady : false;"
NORM == "String fixId(final String id) { String c = id.startsWith(\"/\") ? id.substring(1) : id; if (c.startsWith(\"a/\")) return \"accounts/\" + c; if (c.startsWith(\"c/\")) return \"video-channels/\" + c; }"

\* the lines of which the files handed to the first five rules are made
Alphabet ==
    { "dialog.show(getChildFragmentManager(), tag)",
      "if (isAdded() && !isStateSaved()) {",
      "if (isAdded()) {",
      "(void )",
      TERN,
      "fun onLayout() {",
      "    addView(child)",
      "if (count == 0) {",
      "return;",
      "}",
      "",
      "// note",
      "val x: String? = null",
      "x = null",
      "x.length()",
      "if (x != null) { x.length() }",
      "public void run() {",
      "player.start()",
      "String p = ID_URL_PATTERN;",
      NORM }

\* str.strip() on the lines of the alphabet
Strip(l) == IF l = "    addView(child)" THEN "addView(child)" ELSE l

\* len(line) - len(line.lstrip()): the indentation of a line
Indent(l) == IF l = "    addView(child)" THEN 4 ELSE 0

\* the test `not stripped_line or stripped_line.startswith("//")`
SkipLine(l) == Strip(l) = "" \/ l = "// note"

\* file_path.endswith(ext)
EndsWith(path, ext) ==
    CASE ext = ".java" -> path \in {"app/A.java", "app/C.java", "app/peertube/P.java"}
      [] ext = ".kt"   -> path \in {"app/B.kt", "app/Database.kt"}
      [] OTHER         -> FALSE

Max(a, b) == IF a > b THEN a ELSE b
Min(a, b) == IF a < b THEN a ELSE b

\* the payload a rule yields for one occurrence
Payload(n, c, d, s) == [line_num |-> n, code |-> c, detail |-> d, severity |-> s]

\* the outcome of consuming a rule's generator: the payloads it yielded, in
\* order, and the exception that ended it ("none" when it was exhausted)
Outcome(ys, e) == [yielded |-> ys, error |-> e]

(***************************************************************************)
(* StrictFragmentDialogStateLossRule                                       *)
(***************************************************************************)
SHOW_DIALOG_PATTERN(s) == s = "dialog.show(getChildFragmentManager(), tag)"
IS_ADDED_CHECK_PATTERN(l) == l \in {"if (isAdded() && !isStateSaved()) {", "if (isAdded()) {"}
IS_STATE_SAVED_NEG_PATTERN(l) == l = "if (isAdded() && !isStateSaved()) {"

\* the payloads yielded for line i (1-based) of the file
DialogAtLine(lines, i) ==
    LET s == Strip(lines[i])
        window == Max(1, i - 8) .. i
        has_is_added == \E j \in window : IS_ADDED_CHECK_PATTERN(lines[j])
        has_not_state_saved == \E j \in window : IS_STATE_SAVED_NEG_PATTERN(lines[j])
    IN  IF SkipLine(lines[i]) \/ ~SHOW_DIALOG_PATTERN(s) THEN << >>
        ELSE IF ~(has_is_added /\ has_not_state_saved)
             THEN << Payload(i, s,
                     "Dialog shown without checking isAdded() and !isStateSaved(); can crash after onSaveInstanceState.",
                     "HIGH") >>
             ELSE << >>

RECURSIVE DialogFrom(_, _)
DialogFrom(lines, i) ==
    IF i > Len(lines) THEN << >>
    ELSE DialogAtLine(lines, i) \o DialogFrom(lines, i + 1)

StrictFragmentDialogStateLossRule(file_path, lines) ==
    IF ~(EndsWith(file_path, ".java") \/ EndsWith(file_path, ".kt"))
    THEN Outcome(<< >>, "none")
    ELSE Outcome(DialogFrom(lines, 1), "none")

(***************************************************************************)
(* StrictFailedRequirementExceptionRule                                    *)
(***************************************************************************)
\* `"fun " in s or "void " in s or "override fun " in s`
EntersMethod(s) == s \in {"fun onLayout() {", "(void )", "public void run() {"}

\* s.split('(')[0].split(): the words before the first parenthesis
WordsBeforeParen(s) ==
    CASE s = "fun onLayout() {"   -> << "fun", "onLayout" >>
      [] s = "(void )" -> << >>
      [] s = "public void run() {"  -> << "public", "void", "run" >>
      [] OTHER     -> << s >>

\* the first member of FAILED_REQUIREMENT_OPERATIONS contained in s
FirstOperation(s) ==
    CASE s = "addView(child)" -> "addView"
      [] s = "fun onLayout() {"              -> "onLayout"
      [] OTHER                -> "none"

\* SIZE_COUNT_CHECK_PATTERN or NULL_CHECK_PATTERN matches in the line
ValidationPattern(l) == l \in {"if (count == 0) {", TERN, "if (x != null) { x.length() }"}
EARLY_RETURN_PATTERN(l) == l = "return;"

FailedReqDetail(op, name, sev) ==
    IF sev = "HIGH"
    THEN "Operation '" \o op \o "' without validation in " \o name
         \o "() can cause IllegalArgumentException: Failed requirement. Add precondition checks."
    ELSE "Operation '" \o op \o "' in " \o name
         \o "() with validation but no early return. Consider adding early return when preconditions are not met."

\* One iteration of the loop at line i (1-based) from the loop state st =
\* [in_method, method_start, method_name, yielded, error]; method_start is
\* kept 1-based (0 before any method).
FailedReqStep(lines, i, st) ==
    LET line == lines[i]
        s == Strip(line)
        words == WordsBeforeParen(s)
        method_lines == st.method_start .. i
        has_validation == \E j \in method_lines : ValidationPattern(lines[j])
        has_early_return == \E j \in method_lines : EARLY_RETURN_PATTERN(lines[j])
        op == FirstOperation(s)
        exits == /\ st.in_method /\ s = "}" /\ i > st.method_start
                 /\ i > 1 /\ Strip(lines[i - 1]) /= ""
                 /\ Indent(line) <= Indent(lines[i - 1])
    IN  IF SkipLine(line) THEN st
        ELSE IF EntersMethod(s)
        THEN IF Len(words) = 0
             THEN [st EXCEPT !.in_method = TRUE, !.method_start = i, !.error = "IndexError"]
             ELSE [st EXCEPT !.in_method = TRUE, !.method_start = i,
                             !.method_name = words[Len(words)]]
        ELSE IF exits THEN [st EXCEPT !.in_method = FALSE]
        ELSE IF st.in_method /\ op /= "none"
        THEN IF ~has_validation
             THEN [st EXCEPT !.yielded = Append(@,
                      Payload(i, s, FailedReqDetail(op, st.method_name, "HIGH"), "HIGH"))]
             ELSE IF ~has_early_return
             THEN [st EXCEPT !.yielded = Append(@,
                      Payload(i, s, FailedReqDetail(op, st.method_name, "MEDIUM"), "MEDIUM"))]
             ELSE st
        ELSE st

RECURSIVE FailedReqLoop(_, _, _)
FailedReqLoop(lines, i, st) ==
    IF i > Len(lines) \/ st.error /= "none" THEN st
    ELSE FailedReqLoop(lines, i + 1, FailedReqStep(lines, i, st))

StrictFailedRequirementExceptionRule(file_path, lines) ==
    IF ~(EndsWith(file_path, ".kt") \/ EndsWith(file_path, ".java"))
    THEN Outcome(<< >>, "none")
    ELSE LET st == FailedReqLoop(lines, 1,
                     [in_method |-> FALSE, method_start |-> 0, method_name |-> "",
                      yielded |-> << >>, error |-> "none"])
         IN  Outcome(st.yielded, st.error)

(***************************************************************************)
(* IncompleteBooleanConditionRule                                          *)
(***************************************************************************)
BOOLEAN_VAR_NAMES ==
    {"backFromChooseProductPage", "isVisible", "isEnabled", "isActive",
     "hasData", "isValid", "isReady", "isLoaded", "isInitialized",
     "isScannerVisible", "isProductWillBeFilled"}

\* the names BOOLEAN_VAR_PATTERN captures in a line (no alphabet line
\* declares a boolean)
DeclaredBoolean(l) == {}

\* the names v for which the per-variable ternary pattern built from v
\* matches the stripped line
TernaryVars(s) == IF s = TERN THEN {"isValid", "isReady"} ELSE {}

\* group(1) of the leftmost match of PROBLEMATIC_PATTERN, "none" without match
PROBLEMATIC_PATTERN(s) == IF s = TERN THEN "isValid" ELSE "none"

_looks_like_boolean_var(v) == v \in {"isValid", "isReady"}

\* The names whose relative position in the iteration of the set
\* boolean_vars decides an outcome on the alphabet.  Python iterates a set
\* of strings in an order fixed by the interpreter's string hash seed, which
\* is drawn when the process starts: an order is a sequence of these names.
HashOrders == { o \in [1 .. 2 -> {"isValid", "isReady"}] :
                  \A i, j \in DOMAIN o : i /= j => o[i] /= o[j] }

\* the first name of S met when the set is iterated in the given order
FirstInOrder(order, S) ==
    LET hits == { i \in DOMAIN order : order[i] \in S }
    IN  order[CHOOSE i \in hits : \A j \in hits : i <= j]

BooleanDetail(v) ==
    "Incomplete boolean condition detected: '" \o v \o " != null && (...) ? " \o v
    \o " : false'. This pattern should check both null and boolean value: '" \o v
    \o " != null && " \o v \o " && (...)'."

BooleanAtLine(lines, i, boolean_vars, order) ==
    LET s == Strip(lines[i])
        matching == TernaryVars(s) \cap boolean_vars
        first == IF matching = {} THEN << >>
                 ELSE LET v == FirstInOrder(order, matching)
                      IN  << Payload(i, s, BooleanDetail(v), "HIGH") >>
        g == PROBLEMATIC_PATTERN(s)
        second == IF g /= "none" /\ (g \in boolean_vars \/ _looks_like_boolean_var(g))
                  THEN << Payload(i, s, BooleanDetail(g), "HIGH") >>
                  ELSE << >>
    IN  IF SkipLine(lines[i]) THEN << >> ELSE first \o second

RECURSIVE BooleanFrom(_, _, _, _)
BooleanFrom(lines, i, boolean_vars, order) ==
    IF i > Len(lines) THEN << >>
    ELSE BooleanAtLine(lines, i, boolean_vars, order)
         \o BooleanFrom(lines, i + 1, boolean_vars, order)

IncompleteBooleanConditionRule(file_path, lines, order) ==
    IF ~EndsWith(file_path, ".java")
    THEN Outcome(<< >>, "none")
    ELSE LET boolean_vars == UNION { DeclaredBoolean(lines[j]) : j \in DOMAIN lines }
                             \cup BOOLEAN_VAR_NAMES
         IN  Outcome(BooleanFrom(lines, 1, boolean_vars, order), "none")

(***************************************************************************)
(* UnsafeNullableObjectAccessRule                                          *)
(***************************************************************************)
\* METHOD_CALL_PATTERN.search(line): whether it matches, and groups 1 and 2
\* of the leftmost match
METHOD_CALL_PATTERN(l) ==
    CASE l = "dialog.show(getChildFragmentManager(), tag)"            -> [matched |-> TRUE, object |-> "dialog", method |-> "show"]
      [] l \in {"x.length()",
                "if (x != null) { x.length() }"} -> [matched |-> TRUE, object |-> "x", method |-> "length"]
      [] l = "player.start()"            -> [matched |-> TRUE, object |-> "player", method |-> "start"]
      [] l = NORM            -> [matched |-> TRUE, object |-> "id", method |-> "startsWith"]
      [] OTHER               -> [matched |-> FALSE, object |-> "", method |-> ""]

\* SAFE_CALL_PATTERN.search(line): no alphabet line uses the operator ?.
SAFE_CALL_PATTERN(l) == FALSE

\* the object names of the alphabet (dialog, x, player, id) that contain a
\* member of NULLABLE_CONTEXTS
NULLABLE_CONTEXTS == {"player"}

\* one of the four nullable_patterns built from object_name matches the line
NullablePattern(l, object_name) == object_name = "x" /\ l = "x = null"

\* every object counted as nullable
_is_likely_nullable_Any(lines, object_name) == TRUE

_is_likely_nullable(lines, object_name) ==
    \/ object_name \in NULLABLE_CONTEXTS
    \/ \E j \in DOMAIN lines : NullablePattern(lines[j], object_name)

\* `("public " in l or "private " in l or "protected " in l) and "(" in l
\* and ")" in l`
IsMethodHeader(l) == l = "public void run() {"

\* _find_method_start: the line (1-based) of the nearest method header at or
\* before current_line, -1 when there is none
_find_method_start(lines, current_line) ==
    LET hs == { i \in 1 .. current_line : IsMethodHeader(lines[i]) }
    IN  IF hs = {} THEN -1 ELSE CHOOSE i \in hs : \A j \in hs : j <= i

\* line.count("{") and line.count("}")
CountOpen(l) ==
    CASE l = "try { startActivity(intent) } catch (ActivityNotFoundException e) { }" -> 2
      [] l \in {"if (isAdded() && !isStateSaved()) {", "if (isAdded()) {", "fun onLayout() {",
                "if (count == 0) {", "if (x != null) { x.length() }", "public void run() {", NORM,
                "try {", "if (numberOfRecipients == 0) {",
                "} catch (ActivityNotFoundException e) {", "} catch (SecurityException e) {",
                "} catch (Exception e) {", "} catch (SecurityException, IOException e) {"} -> 1
      [] OTHER -> 0
CountClose(l) ==
    CASE l = "try { startActivity(intent) } catch (ActivityNotFoundException e) { }" -> 2
      [] l \in {"}", "if (x != null) { x.length() }", NORM,
                "} catch (ActivityNotFoundException e) {", "} catch (SecurityException e) {",
                "} catch (Exception e) {", "} catch (SecurityException, IOException e) {"} -> 1
      [] OTHER -> 0

\* the loop of _find_method_end from line i (1-based) on
RECURSIVE MethodEndFrom(_, _, _, _)
MethodEndFrom(lines, i, brace_count, in_method) ==
    IF i > Len(lines) THEN -1
    ELSE LET opened_here == CountOpen(lines[i]) > 0
             count == brace_count + CountOpen(lines[i]) - CountClose(lines[i])
         IN  IF CountClose(lines[i]) > 0 /\ (in_method \/ opened_here) /\ count = 0
             THEN i
             ELSE MethodEndFrom(lines, i + 1, count, in_method \/ opened_here)

\* _find_method_end: the line (1-based) on which the braces opened at or
\* after current_line are balanced again, -1 when there is none
_find_method_end(lines, current_line) == MethodEndFrom(lines, current_line, 0, FALSE)

\* one of the six null_check_patterns built from object_name matches the
\* line; on the alphabet the case-insensitive search matches the same lines
NullCheckPattern(l, object_name) == object_name = "x" /\ l = "if (x != null) { x.length() }"

\* `"if" in current_line_content`
ContainsIf(l) == l \in {"if (isAdded() && !isStateSaved()) {", "if (isAdded()) {",
                        "if (count == 0) {", "if (x != null) { x.length() }", NORM}

_is_protective_null_check(l, object_name) == object_name = "x" /\ l = "if (x != null) { x.length() }"

\* an occurrence whose method cannot be resolved counted as guarded
_has_null_check_SkipUnresolved(lines, current_line, object_name) ==
    LET method_start == _find_method_start(lines, current_line)
        method_end == _find_method_end(lines, current_line)
    IN  IF method_start = -1 \/ method_end = -1 THEN TRUE
        ELSE \/ ContainsIf(lines[current_line]) /\ NullCheckPattern(lines[current_line], object_name)
             \/ \E j \in method_start .. current_line :
                   /\ NullCheckPattern(lines[j], object_name)
                   /\ _is_protective_null_check(lines[j], object_name)

\* _has_null_check; current_line is 1-based
_has_null_check(lines, current_line, object_name) ==
    LET method_start == _find_method_start(lines, current_line)
        method_end == _find_method_end(lines, current_line)
    IN  IF method_start = -1 \/ method_end = -1 THEN FALSE
        ELSE \/ ContainsIf(lines[current_line]) /\ NullCheckPattern(lines[current_line], object_name)
             \/ \E j \in method_start .. current_line :
                   /\ NullCheckPattern(lines[j], object_name)
                   /\ _is_protective_null_check(lines[j], object_name)

NullableDetail(object_name, method_name) ==
    "Unsafe method call: '" \o object_name \o "." \o method_name
    \o "()' called without null check. This can cause NullPointerException if "
    \o object_name \o " is null."

\* whether line i holds a method call that reaches the nullability test
IsNullableCall(lines, i) ==
    /\ ~SkipLine(lines[i])
    /\ METHOD_CALL_PATTERN(lines[i]).matched
    /\ ~SAFE_CALL_PATTERN(lines[i])

\* the payloads yielded for line i (1-based) of the file
NullableAtLine(lines, i) ==
    LET m == METHOD_CALL_PATTERN(lines[i])
    IN  IF ~IsNullableCall(lines, i) THEN << >>
        ELSE IF /\ _is_likely_nullable(lines, m.object)
                /\ ~_has_null_check(lines, i, m.object)
             THEN << Payload(i, Strip(lines[i]), NullableDetail(m.object, m.method), "HIGH") >>
             ELSE << >>

RECURSIVE NullableFrom(_, _)
NullableFrom(lines, i) ==
    IF i > Len(lines) THEN << >>
    ELSE NullableAtLine(lines, i) \o NullableFrom(lines, i + 1)

UnsafeNullableObjectAccessRule(file_path, lines) ==
    Outcome(NullableFrom(lines, 1), "none")

(***************************************************************************)
(* StrictPeertubeChannelIdParsingRule                                      *)
(***************************************************************************)
\* sep.join(xs)
RECURSIVE JoinWith(_, _)
JoinWith(sep, xs) ==
    IF xs = << >> THEN ""
    ELSE IF Len(xs) = 1 THEN xs[1]
    ELSE xs[1] \o sep \o JoinWith(sep, Tail(xs))

StrictPeertubeChannelIdParsingRule(file_path, lines) ==
    LET \* `'peertube' in file_path.lower()`
        in_peertube == file_path = "app/peertube/P.java"
        \* MISSING_URL_SCOPED_PATTERN, and FIXID_SIGNATURE_PATTERN,
        \* CLEAN_LEADING_SLASH_PATTERN, EXPAND_PREFIX_A_PATTERN and
        \* EXPAND_PREFIX_C_PATTERN, which all match the line NORM only
        has_id_url_pattern == \E j \in DOMAIN lines : lines[j] = "String p = ID_URL_PATTERN;"
        has_fixid_signature == \E j \in DOMAIN lines : lines[j] = NORM
        has_clean_leading == \E j \in DOMAIN lines : lines[j] = NORM
        has_expand_a == \E j \in DOMAIN lines : lines[j] = NORM
        has_expand_c == \E j \in DOMAIN lines : lines[j] = NORM
        detail_bits ==
            (IF ~has_id_url_pattern
             THEN << "Define ID_URL_PATTERN='/((accounts|a)|(video-channels|c))/([^/?&#]*)'" >>
             ELSE << >>)
            \o (IF ~has_clean_leading THEN << "Remove leading '/' in fixId" >> ELSE << >>)
            \o (IF ~has_expand_a THEN << "Expand 'a/' -> 'accounts/' in fixId" >> ELSE << >>)
            \o (IF ~has_expand_c THEN << "Expand 'c/' -> 'video-channels/' in fixId" >> ELSE << >>)
        detail == IF detail_bits = << >>
                  THEN "PeerTube channel ID parsing likely incomplete."
                  ELSE JoinWith("; ", detail_bits)
    IN  IF ~EndsWith(file_path, ".java") \/ ~in_peertube
        THEN Outcome(<< >>, "none")
        ELSE IF ~has_id_url_pattern
                \/ ~(has_fixid_signature /\ has_clean_leading /\ has_expand_a /\ has_expand_c)
             THEN Outcome(<< Payload(1, "PeerTube link handler patterns", detail, "MEDIUM") >>,
                             "none")
             ELSE Outcome(<< >>, "none")

(***************************************************************************)
(* UnsafeStartActivityRule                                                 *)
(* The pattern tables of this rule and of the three rules after it are     *)
(* defined on the lines of Alphabet and of IdiomLineLists.                 *)
(***************************************************************************)
\* `"try " in s or s.startswith("try {") or s.endswith(" try")`
OpensTry(s) == s \in {"try {",
                      "try { startActivity(intent) } catch (ActivityNotFoundException e) { }"}

START_ACTIVITY_PATTERN(l) == l \in {"startActivity(intent)",
                                    "startActivity(new Intent(Intent.ACTION_VIEW, uri))",
                                    "try { startActivity(intent) } catch (ActivityNotFoundException e) { }"}
ACTION_VIEW_PATTERN(l) == l = "startActivity(new Intent(Intent.ACTION_VIEW, uri))"

\* One iteration of the loop at line i (1-based) from the loop state st =
\* [try_block_stack, catch_activity_not_found, yielded].
StartActivityStep(lines, i, st) ==
    LET line == lines[i]
        s == Strip(line)
        \* `"catch" in s and "ActivityNotFoundException" in s`
        catches_anf == s \in {"} catch (ActivityNotFoundException e) {",
                              "try { startActivity(intent) } catch (ActivityNotFoundException e) { }"}
        \* s.startswith("}")
        starts_with_brace ==
            s \in {"}", "} catch (ActivityNotFoundException e) {",
                   "} catch (SecurityException e) {", "} catch (Exception e) {",
                   "} catch (SecurityException, IOException e) {"}
        st1 == IF OpensTry(s)
               THEN [st EXCEPT !.try_block_stack = Append(@, i),
                               !.catch_activity_not_found = FALSE]
               ELSE st
        st2 == IF catches_anf
               THEN [st1 EXCEPT !.catch_activity_not_found = TRUE]
               ELSE st1
        popped == SubSeq(st2.try_block_stack, 1, Len(st2.try_block_stack) - 1)
        st3 == IF starts_with_brace /\ st2.try_block_stack /= << >>
               THEN [st2 EXCEPT !.try_block_stack = popped,
                                !.catch_activity_not_found =
                                    IF popped = << >> THEN FALSE ELSE @]
               ELSE st2
        is_action_view == ACTION_VIEW_PATTERN(line)
        \* the severity of a call outside every try block, and of a call in a
        \* try block for which no catch of ActivityNotFoundException was seen
        severity_outside == IF is_action_view THEN "HIGH" ELSE "MEDIUM"
        severity_in_try == IF is_action_view THEN "MEDIUM" ELSE "LOW"
        \* the detail text; the matched text is `startActivity(` on every
        \* line of the alphabet
        detail(severity, in_try) ==
            "Unsafe " \o severity \o " risk call found: 'startActivity('. "
            \o (IF in_try
                THEN "Try block exists but no ActivityNotFoundException handling detected."
                ELSE "No exception handling detected.")
    IN  IF SkipLine(line) THEN st
        ELSE IF ~START_ACTIVITY_PATTERN(line) THEN st3
        ELSE IF st3.try_block_stack = << >>
        THEN [st3 EXCEPT !.yielded = Append(@,
                 Payload(i, s, detail(severity_outside, FALSE), severity_outside))]
        ELSE IF ~st3.catch_activity_not_found
        THEN [st3 EXCEPT !.yielded = Append(@,
                 Payload(i, s, detail(severity_in_try, TRUE), severity_in_try))]
        ELSE st3

RECURSIVE StartActivityLoop(_, _, _)
StartActivityLoop(lines, i, st) ==
    IF i > Len(lines) THEN st
    ELSE StartActivityLoop(lines, i + 1, StartActivityStep(lines, i, st))

UnsafeStartActivityRule(file_path, lines) ==
    Outcome(StartActivityLoop(lines, 1,
                [try_block_stack |-> << >>, catch_activity_not_found |-> FALSE,
                 yielded |-> << >>]).yielded, "none")

(***************************************************************************)
(* StrictExceptionHandlingRule                                             *)
(***************************************************************************)
GENERAL_EXCEPTION_PATTERN(s) == s = "} catch (Exception e) {"

MULTIPLE_EXCEPTION_PATTERN(s) == s \in {"} catch (ActivityNotFoundException e) {",
                                        "} catch (SecurityException e) {",
                                        "} catch (SecurityException, IOException e) {",
                                        "try { startActivity(intent) } catch (ActivityNotFoundException e) { }"}

\* group 1 of SPECIFIC_EXCEPTION_PATTERN.search(s), "" when it does not match
SPECIFIC_EXCEPTION_PATTERN(s) ==
    CASE s \in {"} catch (ActivityNotFoundException e) {",
                "try { startActivity(intent) } catch (ActivityNotFoundException e) { }"} -> "ActivityNotFoundException"
      [] s = "} catch (SecurityException e) {"             -> "SecurityException"
      [] OTHER                    -> ""

RISKY_SPECIFIC_EXCEPTIONS ==
    {"SecurityException", "IllegalArgumentException", "IllegalStateException",
     "NullPointerException", "IndexOutOfBoundsException", "UnsupportedOperationException"}

\* `any(context in file_path for context in self.RISKY_CONTEXTS)`
InRiskyContext(file_path) == file_path = "app/Database.kt"

\* One iteration of the loop at line i (1-based) from the loop state st =
\* [in_try_catch, has_general_exception, has_multiple_exceptions,
\*  specific_exceptions, yielded].
ExceptionStep(file_path, lines, i, st) ==
    LET line == lines[i]
        s == Strip(line)
        \* `"try" in s and ("{" in s or s.endswith("try"))`
        opens_try == s \in {"try {",
                            "try { startActivity(intent) } catch (ActivityNotFoundException e) { }"}
        \* `"catch" in s`
        has_catch == s \in {"} catch (ActivityNotFoundException e) {",
                            "} catch (SecurityException e) {", "} catch (Exception e) {",
                            "} catch (SecurityException, IOException e) {",
                            "try { startActivity(intent) } catch (ActivityNotFoundException e) { }"}
        is_risky_context == InRiskyContext(file_path)
        detail ==
            "Overly specific exception handling (catch "
            \o JoinWith(", ", st.specific_exceptions) \o ") "
            \o (IF is_risky_context THEN "in risky context" ELSE "")
            \o " may miss other exception types. Consider using broader exception handling or adding more specific exception types."
        has_risky_exception ==
            \E k \in DOMAIN st.specific_exceptions :
                st.specific_exceptions[k] \in RISKY_SPECIFIC_EXCEPTIONS
        severity == IF is_risky_context THEN "HIGH" ELSE "MEDIUM"
        reset == [st EXCEPT !.in_try_catch = FALSE, !.has_general_exception = FALSE,
                            !.has_multiple_exceptions = FALSE,
                            !.specific_exceptions = << >>]
    IN  IF SkipLine(line) THEN st
        ELSE IF opens_try
        THEN [st EXCEPT !.in_try_catch = TRUE, !.has_general_exception = FALSE,
                        !.has_multiple_exceptions = FALSE, !.specific_exceptions = << >>]
        ELSE IF st.in_try_catch /\ has_catch /\ GENERAL_EXCEPTION_PATTERN(s)
        THEN [st EXCEPT !.has_general_exception = TRUE]
        ELSE IF st.in_try_catch /\ has_catch /\ MULTIPLE_EXCEPTION_PATTERN(s)
        THEN [st EXCEPT !.has_multiple_exceptions = TRUE]
        ELSE IF st.in_try_catch /\ has_catch /\ SPECIFIC_EXCEPTION_PATTERN(s) /= ""
        THEN [st EXCEPT !.specific_exceptions = Append(@, SPECIFIC_EXCEPTION_PATTERN(s))]
        ELSE IF st.in_try_catch /\ s = "}"
        THEN IF /\ st.specific_exceptions /= << >>
                /\ ~st.has_general_exception /\ ~st.has_multiple_exceptions
                /\ (has_risky_exception \/ is_risky_context)
             THEN [reset EXCEPT !.yielded = Append(@,
                      Payload(i, s, detail, severity))]
             ELSE reset
        ELSE st

RECURSIVE ExceptionLoop(_, _, _, _)
ExceptionLoop(file_path, lines, i, st) ==
    IF i > Len(lines) THEN st
    ELSE ExceptionLoop(file_path, lines, i + 1, ExceptionStep(file_path, lines, i, st))

StrictExceptionHandlingRule(file_path, lines) ==
    IF ~(EndsWith(file_path, ".java") \/ EndsWith(file_path, ".kt"))
    THEN Outcome(<< >>, "none")
    ELSE Outcome(ExceptionLoop(file_path, lines, 1,
                    [in_try_catch |-> FALSE, has_general_exception |-> FALSE,
                     has_multiple_exceptions |-> FALSE, specific_exceptions |-> << >>,
                     yielded |-> << >>]).yielded, "none")

(***************************************************************************)
(* StrictEmptyRecipientHeadersRule                                         *)
(***************************************************************************)
ON_LAYOUT_PATTERN(s) == s = "fun onLayout() {"
CREATE_RECIPIENT_LAYOUT_PATTERN(s) == s = "createRecipientLayout(names)"
ZERO_CHECK_PATTERN(l) == l = "if (numberOfRecipients == 0) {"

\* One iteration of the loop at line i (1-based) from the loop state st =
\* [in_on_layout, on_layout_start, yielded]; on_layout_start is kept 1-based.
\* has_zero_check and has_early_return are recomputed at every call and read
\* nowhere else.
RecipientStep(lines, i, st) ==
    LET line == lines[i]
        s == Strip(line)
        method_lines == st.on_layout_start .. i
        has_zero_check == \E j \in method_lines : ZERO_CHECK_PATTERN(lines[j])
        has_early_return == \E j \in method_lines : EARLY_RETURN_PATTERN(lines[j])
        \* the test that ends the method
        exits_on_layout ==
            /\ st.in_on_layout /\ s = "}" /\ i > st.on_layout_start
            /\ i > 1 /\ Strip(lines[i - 1]) /= ""
            /\ Indent(line) <= Indent(lines[i - 1])
        detail(severity) ==
            IF severity = "HIGH"
            THEN "createRecipientLayout() called without checking if numberOfRecipients == 0. This can cause IllegalArgumentException when messages have empty recipient headers."
            ELSE "createRecipientLayout() called with zero check but no early return. Consider adding early return when numberOfRecipients == 0 for better performance."
    IN  IF SkipLine(line) THEN st
        ELSE IF ON_LAYOUT_PATTERN(s)
        THEN [st EXCEPT !.in_on_layout = TRUE, !.on_layout_start = i]
        ELSE IF exits_on_layout THEN [st EXCEPT !.in_on_layout = FALSE]
        ELSE IF st.in_on_layout /\ CREATE_RECIPIENT_LAYOUT_PATTERN(s)
        THEN IF ~has_zero_check
             THEN [st EXCEPT !.yielded = Append(@, Payload(i, s, detail("HIGH"), "HIGH"))]
             ELSE IF ~has_early_return
             THEN [st EXCEPT !.yielded = Append(@, Payload(i, s, detail("MEDIUM"), "MEDIUM"))]
             ELSE st
        ELSE st

RECURSIVE RecipientLoop(_, _, _)
RecipientLoop(lines, i, st) ==
    IF i > Len(lines) THEN st
    ELSE RecipientLoop(lines, i + 1, RecipientStep(lines, i, st))

StrictEmptyRecipientHeadersRule(file_path, lines) ==
    IF ~EndsWith(file_path, ".kt") THEN Outcome(<< >>, "none")
    ELSE Outcome(RecipientLoop(lines, 1,
                    [in_on_layout |-> FALSE, on_layout_start |-> 0,
                     yielded |-> << >>]).yielded, "none")

(***************************************************************************)
(* StrictRxSubscribeErrorHandlerRule                                       *)
(* The text the rule searches is kept twice: as the string itself and as   *)
(* the sequence of the marks the rule looks for in it, in their order:     *)
(* "(", ")", ",", S for `subscribe`, T for `throwable ->`, I for `it ->`,  *)
(* and x for a run of any other characters.                                *)
(***************************************************************************)
\* KT_OR_JAVA.search(file_path)
KT_OR_JAVA(file_path) == EndsWith(file_path, ".kt") \/ EndsWith(file_path, ".java")

SUBSCRIBE_CALL(l) == l \in {"obs.subscribe(x -> show(x))",
                            "obs.subscribe(x -> show(x), e -> log(e))", "obs.subscribe("}

\* the marks of l.strip()
Tokens(l) ==
    CASE l = "dialog.show(getChildFragmentManager(), tag)" ->
             << "x", "(", "x", "(", ")", ",", "x", ")" >>
      [] l = "if (isAdded() && !isStateSaved()) {" ->
             << "x", "(", "x", "(", ")", "x", "(", ")", ")", "x" >>
      [] l = "if (isAdded()) {" ->
             << "x", "(", "x", "(", ")", ")", "x" >>
      [] l = "(void )" ->
             << "(", "x", ")" >>
      [] l \in {TERN, "try { startActivity(intent) } catch (ActivityNotFoundException e) { }"} ->
             << "x", "(", "x", ")", "x", "(", "x", ")", "x" >>
      [] l \in {"fun onLayout() {", "public void run() {"} ->
             << "x", "(", ")", "x" >>
      [] l \in {"    addView(child)", "startActivity(intent)", "createRecipientLayout(names)"} ->
             << "x", "(", "x", ")" >>
      [] l \in {"if (count == 0) {", "} catch (ActivityNotFoundException e) {",
                "} catch (SecurityException e) {", "} catch (Exception e) {",
                "if (numberOfRecipients == 0) {"} ->
             << "x", "(", "x", ")", "x" >>
      [] l \in {"return;", "}", "// note", "val x: String? = null", "x = null",
                "String p = ID_URL_PATTERN;", "try {"} ->
             << "x" >>
      [] l = "" ->
             << >>
      [] l \in {"x.length()", "player.start()"} ->
             << "x", "(", ")" >>
      [] l = "if (x != null) { x.length() }" ->
             << "x", "(", "x", ")", "x", "(", ")", "x" >>
      [] l = NORM ->
             << "x", "(", "x", ")", "x", "(", "x", ")", "x", "(", "x", ")", "x", "(", "x", "(", "x",
                ")", ")", "x", "(", "x", "(", "x", ")", ")", "x" >>
      [] l = "startActivity(new Intent(Intent.ACTION_VIEW, uri))" ->
             << "x", "(", "x", "(", "x", ",", "x", ")", ")" >>
      [] l = "} catch (SecurityException, IOException e) {" ->
             << "x", "(", "x", ",", "x", ")", "x" >>
      [] l = "obs.subscribe(x -> show(x))" ->
             << "x", "S", "(", "x", "(", "x", ")", ")" >>
      [] l = "obs.subscribe(x -> show(x), e -> log(e))" ->
             << "x", "S", "(", "x", "(", "x", ")", ",", "x", "(", "x", ")", ")" >>
      [] l = "obs.subscribe(" ->
             << "x", "S", "(" >>
      [] l = "x -> show(x)," ->
             << "x", "(", "x", ")", "," >>
      [] l = "throwable -> log(throwable)" ->
             << "T", "x", "(", "x", ")" >>
      [] l = "it -> show(it)" ->
             << "I", "x", "(", "x", ")" >>
      [] l = ");" ->
             << ")", "x" >>

\* a text of the rule: the string and its marks
Text(l) == [text |-> Strip(l), marks |-> Tokens(l)]

\* buf + "\n" + lines[j].strip()
AppendLine(buf, l) ==
    [text |-> buf.text \o "\n" \o Strip(l), marks |-> buf.marks \o << "x" >> \o Tokens(l)]

\* str.count of a one-character mark
CountOf(marks, t) == Cardinality({ k \in DOMAIN marks : marks[k] = t })

\* `buf.count("(") > buf.count(")")`
Unbalanced_Never(buf) == FALSE

Unbalanced(buf) == CountOf(buf.marks, "(") > CountOf(buf.marks, ")")

\* `min(len(lines), i + 15)`
max_look(lines, i) == Min(Len(lines), i + 15)

\* the inner `while`: lines are added to buf from index j (0-based) on
RECURSIVE Accumulate(_, _, _, _)
Accumulate(lines, buf, j, limit) ==
    IF j < limit /\ Unbalanced(buf)
    THEN Accumulate(lines, AppendLine(buf, lines[j + 1]), j + 1, limit)
    ELSE [buf |-> buf, j |-> j]

\* `not has_comma and not has_error_lambda_hint` on the text with these marks
MissingOnError(marks) ==
    LET \* str.find and str.rfind of a mark, 1-based with 0 for "not found"
        find(ms, t) ==
            IF \E k \in DOMAIN ms : ms[k] = t
            THEN CHOOSE k \in DOMAIN ms : ms[k] = t /\ \A m \in 1 .. (k - 1) : ms[m] /= t
            ELSE 0
        rfind(ms, t) ==
            IF \E k \in DOMAIN ms : ms[k] = t
            THEN CHOOSE k \in DOMAIN ms : ms[k] = t /\ \A m \in (k + 1) .. Len(ms) : ms[m] /= t
            ELSE 0
        \* s[:-1]: the text without its last character
        drop_last(ms) ==
            IF ms = << >> THEN << >>
            ELSE LET last == ms[Len(ms)]
                     front == SubSeq(ms, 1, Len(ms) - 1)
                 IN  IF last \in {"(", ")", ","} THEN front
                     ELSE IF last = "x" THEN ms
                     ELSE Append(front, "x")
        \* the text between the first "(" after the first `subscribe` and the
        \* last ")"; find and rfind give -1 when there is none, so that the
        \* slice then starts at the first character, or leaves out the last one
        after == SubSeq(marks, find(marks, "S") + 1, Len(marks))
        from == find(after, "(") + 1
        inner ==
            IF find(marks, "S") = 0 THEN << >>
            ELSE IF rfind(after, ")") = 0
            THEN drop_last(SubSeq(after, from, Len(after)))
            ELSE SubSeq(after, from, rfind(after, ")") - 1)
        has_comma == \E k \in DOMAIN inner : inner[k] = ","
        has_error_lambda_hint ==
            \/ \E k \in DOMAIN inner : inner[k] = "T"
            \/ (\E k \in DOMAIN inner : inner[k] = "I") /\ has_comma
    IN  ~has_comma /\ ~has_error_lambda_hint

SubscribeDetail == "subscribe() missing onError handler; add subscribe(onNext, onError)."

\* `i += 1` on a line without a subscribe call
NextIndexPlain_Same(i) == i

NextIndexPlain(i) == i + 1

\* One iteration of `while i < len(lines)` at index i (0-based): the index
\* the loop goes on with, the payloads yielded, and the text decided on
SubscribeIteration(lines, i) ==
    IF SUBSCRIBE_CALL(lines[i + 1])
    THEN LET acc == Accumulate(lines, Text(lines[i + 1]), i + 1, max_look(lines, i))
         IN  [i |-> acc.j,
              yielded |-> IF MissingOnError(acc.buf.marks)
                          THEN << Payload(i + 1, Strip(lines[i + 1]), SubscribeDetail, "HIGH") >>
                          ELSE << >>,
              buf |-> acc.buf.text]
    ELSE [i |-> NextIndexPlain(i), yielded |-> << >>, buf |-> ""]

RECURSIVE SubscribeLoop(_, _)
SubscribeLoop(lines, i) ==
    IF i >= Len(lines) THEN << >>
    ELSE SubscribeIteration(lines, i).yielded
         \o SubscribeLoop(lines, SubscribeIteration(lines, i).i)

StrictRxSubscribeErrorHandlerRule(file_path, lines) ==
    IF ~KT_OR_JAVA(file_path) THEN Outcome(<< >>, "none")
    ELSE Outcome(SubscribeLoop(lines, 0), "none")

(***************************************************************************)
(* StrictWorkerFactoryNullSafetyRule                                       *)
(***************************************************************************)
\* One iteration of the loop of analyze_file at line i (1-based; the code's
\* index is i - 1) from the locals st = [in_worker_factory, in_create_worker,
\* method_start, has_safe_get, has_nullable_return] and the payloads yielded
\* so far.  method_start is the code's 0-based index.
WorkerFactoryStep(lines, i, st) ==
    LET line == lines[i]
        s == Strip(line)
        WORKER_FACTORY_PATTERN == s = "class K9WorkerFactory : WorkerFactory() {"
        CREATE_WORKER_PATTERN == s \in {"override fun createWorker(): ListenableWorker {",
                                        "override fun createWorker(): ListenableWorker? {"}
        \* RETURN_TYPE_PATTERN matches and its group ends with "?"
        nullable_return == s = "override fun createWorker(): ListenableWorker? {"
        SAFE_GET_OR_NULL_PATTERN == s = "val w = getKoin().getOrNull(workerClass)"
        \* UNSAFE_GET_PATTERN and KOIN_GET_PATTERN match the same line
        UNSAFE_GET_PATTERN == s = "return getKoin().get(workerClass)"
        KOIN_GET_PATTERN == s = "return getKoin().get(workerClass)"
        \* `"return" in stripped_line`
        has_return == s \in {"return getKoin().get(workerClass)", "return;"}
        \* the closing brace of createWorker: a lone "}" after the header, not
        \* indented more than the non-blank line before it
        exits == /\ st.in_create_worker /\ s = "}" /\ i - 1 > st.method_start
                 /\ i > 1 /\ Strip(lines[i - 1]) /= ""
                 /\ Indent(line) <= Indent(lines[i - 1])
        high == IF UNSAFE_GET_PATTERN /\ ~st.has_safe_get /\ KOIN_GET_PATTERN
                THEN << Payload(i, s,
                           "Unsafe getKoin().get() call in WorkerFactory.createWorker() can cause crashes when dependencies are not available. Use getOrNull() instead.",
                           "HIGH") >>
                ELSE << >>
        medium == IF ~st.has_nullable_return /\ has_return
                  THEN << Payload(i, s,
                             "WorkerFactory.createWorker() should return ListenableWorker? (nullable) to handle cases where dependency injection fails.",
                             "MEDIUM") >>
                  ELSE << >>
    IN  IF SkipLine(line) THEN st
        ELSE IF WORKER_FACTORY_PATTERN THEN [st EXCEPT !.in_worker_factory = TRUE]
        ELSE IF st.in_worker_factory /\ CREATE_WORKER_PATTERN
        THEN [st EXCEPT !.in_create_worker = TRUE, !.method_start = i - 1,
                        !.has_safe_get = FALSE, !.has_nullable_return = nullable_return]
        ELSE IF exits THEN [st EXCEPT !.in_create_worker = FALSE]
        ELSE IF ~st.in_create_worker THEN st
        ELSE IF SAFE_GET_OR_NULL_PATTERN THEN [st EXCEPT !.has_safe_get = TRUE]
        ELSE [st EXCEPT !.yielded = @ \o high \o medium]

(***************************************************************************)
(* The rule interface                                                      *)
(***************************************************************************)
\* Rule.name: the class names of the rules the scanner is configured with
RuleNames == {"StrictFragmentDialogStateLossRule",
              "StrictFailedRequirementExceptionRule",
              "IncompleteBooleanConditionRule"}

\* the class names of the rules analysed one at a time
UnitRules == RuleNames \cup {"UnsafeNullableObjectAccessRule",
                             "StrictPeertubeChannelIdParsingRule"}

\* the rules analysed one at a time on the lines of their idioms
IdiomRules == {"UnsafeStartActivityRule", "StrictExceptionHandlingRule",
               "StrictEmptyRecipientHeadersRule", "StrictRxSubscribeErrorHandlerRule"}

issue_type(rule) ==
    CASE rule = "StrictFragmentDialogStateLossRule" ->
           "Dialog shown after onSaveInstanceState (state loss risk)"
      [] rule = "StrictFailedRequirementExceptionRule" ->
           "Potential IllegalArgumentException: Failed Requirement"
      [] rule = "IncompleteBooleanConditionRule" ->
           "Incomplete Boolean Condition in Ternary Operator"
      [] rule = "UnsafeNullableObjectAccessRule" ->
           "Unsafe Nullable Object Method Call"
      [] rule = "StrictPeertubeChannelIdParsingRule" ->
           "PeerTube channel ID parsing too permissive/incorrect"
      [] rule = "UnsafeStartActivityRule" ->
           "Unsafe startActivity Call Without Exception Handling"
      [] rule = "StrictExceptionHandlingRule" ->
           "Overly Specific Exception Handling That Misses Other Exception Types"
      [] rule = "StrictEmptyRecipientHeadersRule" ->
           "Unsafe RecipientLayoutCreator Call Without Empty Check"
      [] rule = "StrictRxSubscribeErrorHandlerRule" ->
           "Rx subscribe without onError handler (OnErrorNotImplemented risk)"

suggestion(rule) ==
    CASE rule = "StrictFragmentDialogStateLossRule" ->
           "Check isAdded() and !isStateSaved() before calling show() on a dialog or FragmentManager."
      [] rule = "StrictFailedRequirementExceptionRule" ->
           "Add precondition checks before performing operations that can throw IllegalArgumentException: Failed requirement. Validate inputs and state before calling methods that have strict requirements."
      [] rule = "IncompleteBooleanConditionRule" ->
           "Boolean conditions should check both null and boolean value. Replace incomplete conditions with proper boolean logic using && and || operators."
      [] rule = "UnsafeNullableObjectAccessRule" ->
           "Method call on a potentially null object without a null check. Add 'if (object != null)' or use safe call operator ('?.') to prevent NullPointerException."
      [] rule = "StrictPeertubeChannelIdParsingRule" ->
           "Use '/((accounts|a)|(video-channels|c))/([^/?&#]*)' and normalize IDs by removing leading '/' and expanding 'a/'/'c/'."
      [] rule = "UnsafeStartActivityRule" ->
           "The startActivity() call can throw an ActivityNotFoundException if no app can handle the Intent (e.g., no browser for ACTION_VIEW). Wrap it in a try-catch block with ActivityNotFoundException handling."
      [] rule = "StrictExceptionHandlingRule" ->
           "Use more general exception handling (catch Exception) or add multiple specific exception types to prevent crashes from unexpected exceptions."
      [] rule = "StrictEmptyRecipientHeadersRule" ->
           "Check if numberOfRecipients == 0 before calling createRecipientLayout() to prevent IllegalArgumentException. Add early return when there are no recipients to display."
      [] rule = "StrictRxSubscribeErrorHandlerRule" ->
           "Use subscribe(onNext, onError) and handle errors (e.g., showSnackBarError / fallback)."

\* rule.analyze_file(file_path, lines), consumed to its end; the rules keep
\* no attribute between calls, so the outcome is a function of the arguments
\* and of the set iteration order of the process
analyze_file(rule, file_path, lines, order) ==
    CASE rule = "StrictFragmentDialogStateLossRule" ->
           StrictFragmentDialogStateLossRule(file_path, lines)
      [] rule = "StrictFailedRequirementExceptionRule" ->
           StrictFailedRequirementExceptionRule(file_path, lines)
      [] rule = "IncompleteBooleanConditionRule" ->
           IncompleteBooleanConditionRule(file_path, lines, order)
      [] rule = "UnsafeNullableObjectAccessRule" ->
           UnsafeNullableObjectAccessRule(file_path, lines)
      [] rule = "StrictPeertubeChannelIdParsingRule" ->
           StrictPeertubeChannelIdParsingRule(file_path, lines)
      [] rule = "UnsafeStartActivityRule" ->
           UnsafeStartActivityRule(file_path, lines)
      [] rule = "StrictExceptionHandlingRule" ->
           StrictExceptionHandlingRule(file_path, lines)
      [] rule = "StrictEmptyRecipientHeadersRule" ->
           StrictEmptyRecipientHeadersRule(file_path, lines)
      [] rule = "StrictRxSubscribeErrorHandlerRule" ->
           StrictRxSubscribeErrorHandlerRule(file_path, lines)

(***************************************************************************)
(* Files and trees                                                         *)
(***************************************************************************)
\* A file of the tree: its path, whether open()/readlines() succeeds on it
\* in the scan loop, whether it still succeeds when the context extractor
\* opens the file again, and its lines.  A tree is the sequence of its files
\* in the order in which os.walk enumerates them.
File(p, r, ls) == [path |-> p, readable |-> r, reread |-> r, lines |-> ls]

\* a file the scan loop reads and that is gone when it is opened again
Vanishing(p, ls) == [path |-> p, readable |-> TRUE, reread |-> FALSE, lines |-> ls]

Paths == << "app/A.java", "app/B.kt", "app/notes.txt" >>
ExtraPath == "app/C.java"

Contents ==
    { << "dialog.show(getChildFragmentManager(), tag)" >>,
      << "(void )", "dialog.show(getChildFragmentManager(), tag)" >>,
      << TERN >>,
      << "dialog.show(getChildFragmentManager(), tag)", "fun onLayout() {", "    addView(child)",
         "if (count == 0) {", "    addView(child)", "}" >>,
      << "fun onLayout() {", "    addView(child)", "(void )" >> }

\* the files a path may hold: a readable file, an unreadable one and, at
\* app/B.kt, a file that is gone when the context extractor opens it again
FilesAt(p) ==
    { File(p, TRUE, ls) : ls \in Contents } \cup { File(p, FALSE, << >>) }
    \cup (IF p = "app/B.kt"
          THEN { Vanishing(p, << "dialog.show(getChildFragmentManager(), tag)" >>) }
          ELSE {})

\* os.walk lists the files of a directory in the order of the file system,
\* which the code does not sort: a tree is a sequence of at most MaxFiles
\* files of distinct paths, in any order.  TreesFrom(used) is the set of the
\* sequences that can follow files of the paths in used.
RECURSIVE TreesFrom(_)
TreesFrom(used) ==
    { << >> } \cup
    (IF Cardinality(used) >= MaxFiles THEN {}
     ELSE UNION { { << f >> \o t : f \in FilesAt(p), t \in TreesFrom(used \cup {p}) } :
                  p \in { Paths[k] : k \in DOMAIN Paths } \ used })
Trees == TreesFrom({})

RuleLists == UNION { [1 .. n -> RuleNames] : n \in 0 .. MaxRules }


(***************************************************************************)
(* Context extractor                                                       *)
(***************************************************************************)
\* f"{line_num:4d}"
Pad4(n) ==
    (IF n < 10 THEN "   " ELSE IF n < 100 THEN "  " ELSE IF n < 1000 THEN " " ELSE "")
    \o ToString(n)

\* "\n".join(xs)
RECURSIVE Join(_)
Join(xs) ==
    IF xs = << >> THEN ""
    ELSE IF Len(xs) = 1 THEN xs[1]
    ELSE xs[1] \o "\n" \o Join(Tail(xs))

\* the diagnostic left out
ContextError_Silent(e) == ""

\* f"Unable to get context code: {e}" of the `except Exception`
ContextError(e) == "Unable to get context code: " \o e

\* str(e) for the OSError open(file_path) raises in the context extractor
OpenErrorText(file) ==
    IF file.readable
    THEN "[Errno 2] No such file or directory: '" \o file.path \o "'"
    ELSE "[Errno 13] Permission denied: '" \o file.path \o "'"

\* the window beginning one line late
ContextStart_NoOffset(target_line, context_size) ==
    Max(0, target_line - context_size)

\* start_line, a 0-based index
ContextStart(target_line, context_size) ==
    Max(0, target_line - context_size - 1)

\* the end of the window not clipped to the file
ContextEnd_Unclipped(n, target_line, context_size) ==
    target_line + context_size

\* end_line for a file of n lines, a 0-based exclusive index
ContextEnd(n, target_line, context_size) ==
    Min(n, target_line + context_size)

\* range(start_line, end_line): the 0-based indices i of the loop, in order
ContextRange(n, target_line, context_size) ==
    LET start_line == ContextStart(target_line, context_size)
        end_line == ContextEnd(n, target_line, context_size)
    IN  [ k \in 1 .. Max(0, end_line - start_line) |-> start_line + k - 1 ]

\* whether lines[i] of a list of n lines is defined for the 0-based index i
\* (a negative index counts from the end), and its value
IndexInRange(n, i) == -n <= i /\ i < n
ListItem(lines, i) == IF i >= 0 THEN lines[i + 1] ELSE lines[Len(lines) + i + 1]

\* f"{prefix}{line_num:4d}: {lines[i].rstrip()}"; no line of the model ends in
\* white space, so rstrip() leaves it as it is
ContextLine(lines, i, target_line) ==
    (IF i + 1 = target_line THEN ">>> " ELSE "    ")
    \o Pad4(i + 1) \o ": " \o ListItem(lines, i)

\* CodeScanner._get_context_lines
_get_context_lines(file, target_line, context_size) ==
    IF ~file.reread THEN ContextError(OpenErrorText(file))
    ELSE LET r == ContextRange(Len(file.lines), target_line, context_size)
         IN  IF \E k \in DOMAIN r : ~IndexInRange(Len(file.lines), r[k])
             THEN ContextError("list index out of range")
             ELSE Join([ k \in DOMAIN r |-> ContextLine(file.lines, r[k], target_line) ])

(***************************************************************************)
(* Scanner engine                                                          *)
(***************************************************************************)
\* the check left out
RulesEmpty_NoCheck(rs) == FALSE

\* `if not rules` of CodeScanner.__init__
RulesEmpty(rs) == Len(rs) = 0

\* os.path.exists in place of os.path.isdir
IsDir_Exists(kind) == kind \in {"dir", "file"}

\* os.path.isdir(repo_to_scan) of main()
IsDir(kind) == kind = "dir"

\* os.walk(repo_path): the files of the tree in enumeration order; a root
\* that is not a directory yields nothing (scandir errors are ignored)
Walk(kind, t) == IF kind = "dir" THEN t ELSE << >>

\* `file.endswith(".kt") or file.endswith(".java")`
IsCandidate(path) == EndsWith(path, ".kt") \/ EndsWith(path, ".java")

\* CodeScanner._format_issue
_format_issue(file, rule, issue_details) ==
    [file_path    |-> file.path,
     line_num     |-> issue_details.line_num,
     issue_type   |-> issue_type(rule),
     code         |-> issue_details.code,
     context_code |-> _get_context_lines(file, issue_details.line_num, 10),
     suggestion   |-> suggestion(rule),
     rule_name    |-> rule,
     detail       |-> issue_details.detail]

\* the Findings of a sequence of payloads of one rule
FormatAll(file, rule, ys) == [ k \in DOMAIN ys |-> _format_issue(file, rule, ys[k]) ]

\* `for rule in self.rules` on one opened file, from the k-th rule on: the
\* Findings appended, the payloads consumed, the rules invoked, and the
\* exception that left the loop ("none" when every rule was exhausted)
RECURSIVE RunRules(_, _, _, _)
RunRules(rs, k, file, order) ==
    IF k > Len(rs) THEN [issues |-> << >>, payloads |-> << >>, calls |-> << >>, error |-> "none"]
    ELSE LET out == analyze_file(rs[k], file.path, file.lines, order)
             here == [issues   |-> FormatAll(file, rs[k], out.yielded),
                      payloads |-> out.yielded,
                      calls    |-> << << file.path, k >> >>,
                      error    |-> out.error]
         IN  IF out.error /= "none" THEN here
             ELSE LET rest == RunRules(rs, k + 1, file, order)
                  IN  [issues   |-> here.issues \o rest.issues,
                       payloads |-> here.payloads \o rest.payloads,
                       calls    |-> here.calls \o rest.calls,
                       error    |-> rest.error]

\* the body of the `try` for one candidate file
TryFile(rs, file, order) ==
    IF ~file.readable
    THEN [issues |-> << >>, payloads |-> << >>, calls |-> << >>, error |-> "PermissionError"]
    ELSE RunRules(rs, 1, file, order)

\* `except OSError` in place of `except Exception`
ExceptException_OSErrorOnly(e) == e = "PermissionError"

\* `except Exception`: the exceptions the handler of the file loop catches
ExceptException(e) == e \in {"PermissionError", "IndexError"}

\* the message printed without the path
ErrorLine_NoPath(path, e) == [kind |-> "error", file_path |-> "", error |-> e]

\* the line printed by the handler
ErrorLine(path, e) == [kind |-> "error", file_path |-> path, error |-> e]

\* the `try` put around the whole traversal: an error ends it
NextFileAfterError_Stop(i, n) == n + 1

\* the index of the file the traversal goes on with after an error on the
\* i-th of n files
NextFileAfterError(i, n) == i + 1

(***************************************************************************)
(* Reporter                                                                *)
(***************************************************************************)
\* issue.get('severity', 'UNKNOWN')
SeverityOf(issue) == IF "severity" \in DOMAIN issue THEN issue.severity ELSE "UNKNOWN"

\* the severity marker: red, yellow, green and white circles
SeverityIcon(severity) ==
    CASE severity = "HIGH"   -> "RED"
      [] severity = "MEDIUM" -> "YELLOW"
      [] severity = "LOW"    -> "GREEN"
      [] OTHER               -> "WHITE"

\* the keys of issues_by_file, in insertion order
RECURSIVE FileKeys(_, _)
FileKeys(issues, seen) ==
    IF issues = << >> THEN << >>
    ELSE IF Head(issues).file_path \in seen THEN FileKeys(Tail(issues), seen)
    ELSE << Head(issues).file_path >>
         \o FileKeys(Tail(issues), seen \cup { Head(issues).file_path })

\* issues_by_file[file_path]
IssuesOfFile(issues, file_path) == SelectSeq(issues, LAMBDA x : x.file_path = file_path)

\* sorted(file_issues, key=lambda x: x['line_num']), a stable sort
RECURSIVE InsertByLine(_, _)
InsertByLine(sorted, x) ==
    IF sorted = << >> THEN << x >>
    ELSE IF Head(sorted).line_num <= x.line_num
         THEN << Head(sorted) >> \o InsertByLine(Tail(sorted), x)
         ELSE << x >> \o sorted

RECURSIVE SortByLine(_)
SortByLine(xs) ==
    IF xs = << >> THEN << >>
    ELSE InsertByLine(SortByLine(SubSeq(xs, 1, Len(xs) - 1)), xs[Len(xs)])

\* what is printed for one issue
IssueEntry(issue) ==
    [kind           |-> "issue",
     icon           |-> SeverityIcon(SeverityOf(issue)),
     line_num       |-> issue.line_num,
     issue_type     |-> issue.issue_type,
     severity       |-> SeverityOf(issue),
     code           |-> issue.code,
     context        |-> issue.context_code,
     suggestion     |-> issue.suggestion,
     detail_printed |-> issue.detail /= "",
     detail         |-> issue.detail,
     file_path      |-> issue.file_path]

\* the issues of a file printed in the order of the list
FileSection_Unsorted(issues, file_path) ==
    LET sorted == IssuesOfFile(issues, file_path)
    IN  << [kind |-> "file", file_path |-> file_path] >>
        \o [ k \in DOMAIN sorted |-> IssueEntry(sorted[k]) ]

\* the header of a file and its issues, sorted by line number
FileSection(issues, file_path) ==
    LET sorted == SortByLine(IssuesOfFile(issues, file_path))
    IN  << [kind |-> "file", file_path |-> file_path] >>
        \o [ k \in DOMAIN sorted |-> IssueEntry(sorted[k]) ]

RECURSIVE Sections(_, _)
Sections(issues, keys) ==
    IF keys = << >> THEN << >>
    ELSE FileSection(issues, Head(keys)) \o Sections(issues, Tail(keys))

\* the report without the test `if not issues`
report_issues_NoEmptyCase(issues) ==
    << [kind |-> "found", count |-> Len(issues)] >>
    \o Sections(issues, FileKeys(issues, {}))

\* report_issues: the entries printed, in order
report_issues(issues) ==
    IF issues = << >> THEN << [kind |-> "no_issues"] >>
    ELSE << [kind |-> "found", count |-> Len(issues)] >>
         \o Sections(issues, FileKeys(issues, {}))

(***************************************************************************)
(* Initial state                                                           *)
(***************************************************************************)
vars == << pc, run, rules, tree, rootKind, hashOrder, caller, idx, all_issues,
           payloads, calls, opened, stdout, raised, returned, prev, unit >>

NoPrev == [kind |-> "none"]

Init ==
    /\ pc = "start"
    /\ run = 1
    /\ rules \in RuleLists
    /\ rootKind \in {"dir", "file", "missing"}
    /\ tree \in (IF rootKind = "dir" THEN Trees ELSE { << >> })
    /\ hashOrder \in HashOrders
    /\ caller = "none"
    /\ idx = 0
    /\ all_issues = << >>
    /\ payloads = << >>
    /\ calls = << >>
    /\ opened = << >>
    /\ stdout = << >>
    /\ raised = "none"
    /\ returned = << >>
    /\ prev = NoPrev
    /\ unit = [op |-> "none"]

config == << rules, tree, rootKind, hashOrder, run, prev, unit >>
history == << payloads, calls, opened >>

(***************************************************************************)
(* Actions                                                                 *)
(***************************************************************************)
\* CodeScanner.__init__
Construct ==
    /\ pc = "start"
    /\ IF RulesEmpty(rules)
       THEN /\ pc' = "ctor_failed"
            /\ raised' = "ValueError"
            /\ stdout' = stdout
       ELSE /\ pc' = "constructed"
            /\ raised' = raised
            /\ stdout' = Append(stdout, [kind |-> "init", count |-> Len(rules), names |-> rules])
    /\ UNCHANGED << config, history, caller, idx, all_issues, returned >>

\* main(): the os.path.isdir check that precedes the scan
MainIsDir ==
    /\ pc = "constructed"
    /\ IF IsDir(rootKind)
       THEN /\ pc' = "main_scan"
            /\ stdout' = Append(stdout, [kind |-> "start"])
       ELSE /\ pc' = "exited"
            /\ stdout' = Append(stdout, [kind |-> "not_a_directory"])
    /\ UNCHANGED << config, history, caller, idx, all_issues, raised, returned >>

\* entry of scan_repository, as main() calls it
MainScan ==
    /\ pc = "main_scan"
    /\ pc' = "scanning"
    /\ caller' = "main"
    /\ idx' = 1
    /\ all_issues' = << >>
    /\ UNCHANGED << config, history, stdout, raised, returned >>

\* entry of scan_repository, called on the scanner without main()'s check
ApiScan ==
    /\ pc = "constructed"
    /\ run = 1
    /\ pc' = "scanning"
    /\ caller' = "api"
    /\ idx' = 1
    /\ all_issues' = << >>
    /\ UNCHANGED << config, history, stdout, raised, returned >>

\* one iteration of the file loop of scan_repository
ProcessFile ==
    /\ pc = "scanning"
    /\ idx <= Len(Walk(rootKind, tree))
    /\ LET walk == Walk(rootKind, tree)
           file == walk[idx]
           res  == TryFile(rules, file, hashOrder)
       IN  IF ~IsCandidate(file.path)
           THEN /\ idx' = idx + 1
                /\ UNCHANGED << pc, all_issues, history, stdout, raised >>
           ELSE /\ opened' = Append(opened, file.path)
                /\ all_issues' = all_issues \o res.issues
                /\ payloads' = payloads \o res.payloads
                /\ calls' = calls \o res.calls
                /\ IF res.error = "none"
                   THEN /\ idx' = idx + 1
                        /\ UNCHANGED << pc, stdout, raised >>
                   ELSE IF ExceptException(res.error)
                   THEN /\ stdout' = Append(stdout, ErrorLine(file.path, res.error))
                        /\ idx' = NextFileAfterError(idx, Len(walk))
                        /\ UNCHANGED << pc, raised >>
                   ELSE /\ pc' = "raised"
                        /\ raised' = res.error
                        /\ UNCHANGED << idx, stdout >>
    /\ UNCHANGED << config, caller, returned >>

\* `return all_issues`
ReturnIssues ==
    /\ pc = "scanning"
    /\ idx > Len(Walk(rootKind, tree))
    /\ pc' = "returned"
    /\ returned' = all_issues
    /\ UNCHANGED << config, history, caller, idx, all_issues, stdout, raised >>

\* report_issues(found_issues)
Report ==
    /\ pc = "returned"
    /\ pc' = "reported"
    /\ stdout' = stdout \o report_issues(returned)
    /\ UNCHANGED << config, history, caller, idx, all_issues, raised, returned >>

(***************************************************************************)
(* The program is executed a second time on an input that differs from the *)
(* first in one respect.                                                   *)
(***************************************************************************)
RemoveAt(seq, k) == SubSeq(seq, 1, k - 1) \o SubSeq(seq, k + 1, Len(seq))
InsertAt(seq, k, x) == SubSeq(seq, 1, k - 1) \o << x >> \o SubSeq(seq, k, Len(seq))
Reorderings(seq) ==
    { [ i \in DOMAIN seq |-> seq[p[i]] ] :
        p \in { q \in [DOMAIN seq -> DOMAIN seq] : \A i, j \in DOMAIN seq : i /= j => q[i] /= q[j] } }

Variation(kind, arg) == [kind |-> kind, arg |-> arg]

Begin2(v, rs, t, order) ==
    /\ pc = "reported"
    /\ run = 1
    /\ caller = "main"
    /\ prev' = [kind |-> v.kind, arg |-> v.arg, rules |-> rules, tree |-> tree,
                hashOrder |-> hashOrder, issues |-> returned, stdout |-> stdout]
    /\ run' = 2
    /\ rules' = rs
    /\ tree' = t
    /\ hashOrder' = order
    /\ pc' = "start"
    /\ caller' = "none"
    /\ idx' = 0
    /\ all_issues' = << >>
    /\ payloads' = << >>
    /\ calls' = << >>
    /\ opened' = << >>
    /\ stdout' = << >>
    /\ raised' = "none"
    /\ returned' = << >>
    /\ UNCHANGED << rootKind, unit >>

\* the same input, in a new process
Restart == \E order \in HashOrders : Begin2(Variation("restart", 0), rules, tree, order)

\* the rule list without its k-th rule, in the same process
RemoveRule == \E k \in DOMAIN rules :
    Begin2(Variation("remove_rule", k), RemoveAt(rules, k), tree, hashOrder)

\* the rules in another order, in the same process
PermuteRules == \E rs \in Reorderings(rules) \ { rules } :
    Begin2(Variation("permute_rules", 0), rs, tree, hashOrder)

\* one unreadable file more in the tree, in the same process
AddUnreadable == \E k \in 1 .. Len(tree) + 1 :
    Begin2(Variation("add_unreadable", k), rules,
           InsertAt(tree, k, File(ExtraPath, FALSE, << >>)), hashOrder)

\* the tree without its k-th file, in the same process
RemoveFile == \E k \in DOMAIN tree :
    Begin2(Variation("remove_file", k), rules, RemoveAt(tree, k), hashOrder)

Next ==
    \/ Construct
    \/ MainIsDir
    \/ MainScan
    \/ ApiScan
    \/ ProcessFile
    \/ ReturnIssues
    \/ Report
    \/ Restart
    \/ RemoveRule
    \/ PermuteRules
    \/ AddUnreadable
    \/ RemoveFile

Spec == Init /\ [][Next]_vars

(***************************************************************************)
(* A rule called on one file, outside a scan                               *)
(***************************************************************************)
\* the scanner is not running while a single call is examined
EngineIdle ==
    /\ pc = "unit"
    /\ run = 1
    /\ rules = << >>
    /\ tree = << >>
    /\ rootKind = "dir"
    /\ hashOrder = CHOOSE o \in HashOrders : TRUE
    /\ caller = "none"
    /\ idx = 0
    /\ all_issues = << >>
    /\ payloads = << >>
    /\ calls = << >>
    /\ opened = << >>
    /\ stdout = << >>
    /\ raised = "none"
    /\ returned = << >>
    /\ prev = NoPrev

engine == << pc, run, rules, tree, rootKind, hashOrder, caller, idx, all_issues,
             payloads, calls, opened, stdout, raised, returned, prev >>

UnitPaths == {"app/A.java", "app/B.kt", "app/notes.txt", "app/peertube/P.java"}

\* the line lists handed to a rule: every list of at most MaxLines alphabet
\* lines, the contents of the trees, and some longer files
UnitLineLists ==
    UNION { [1 .. k -> Alphabet] : k \in 0 .. MaxLines }
    \cup Contents
    \cup { << "x = null", "x.length()", "x.length()" >>,
           << "public void run() {", "x = null", "x.length()", "}" >>,
           << "public void run() {", "x = null", "if (x != null) { x.length() }", "}" >>,
           << "x = null", "if (x != null) { x.length() }", "x.length()" >>,
           << "public void run() {", "player.start()", "if (count == 0) {", "}" >> }

\* the line lists handed to a rule of IdiomRules: every list of at most
\* MaxLines of the lines of its idiom, and some longer files
IdiomLineLists(rule) ==
    LET short(alphabet) == UNION { [1 .. k -> alphabet] : k \in 0 .. MaxLines }
    IN  CASE rule = "UnsafeStartActivityRule" ->
               short({"try {", "startActivity(intent)",
                      "startActivity(new Intent(Intent.ACTION_VIEW, uri))",
                      "} catch (ActivityNotFoundException e) {", "} catch (SecurityException e) {",
                      "try { startActivity(intent) } catch (ActivityNotFoundException e) { }", "}",
                      "", "// note"})
               \cup { << "try {", "startActivity(intent)",
                      "} catch (ActivityNotFoundException e) {", "}" >>,
                      << "try {", "startActivity(new Intent(Intent.ACTION_VIEW, uri))",
                         "} catch (ActivityNotFoundException e) {", "startActivity(intent)", "}" >>,
                      << "try {", "startActivity(intent)", "} catch (SecurityException e) {", "}",
                         "startActivity(intent)" >> }
          [] rule = "StrictExceptionHandlingRule" ->
               short({"try {", "startActivity(intent)", "} catch (ActivityNotFoundException e) {",
                      "} catch (SecurityException e) {", "} catch (Exception e) {",
                      "} catch (SecurityException, IOException e) {",
                      "try { startActivity(intent) } catch (ActivityNotFoundException e) { }", "}",
                      "// note"})
               \cup { << "try {", "startActivity(intent)", "} catch (SecurityException e) {",
                      "}" >>,
                      << "try {", "startActivity(intent)", "} catch (Exception e) {", "}" >>,
                      << "try {", "startActivity(intent)", "} catch (SecurityException e) {",
                         "} catch (SecurityException, IOException e) {", "}" >> }
          [] rule = "StrictEmptyRecipientHeadersRule" ->
               short({"fun onLayout() {", "createRecipientLayout(names)",
                      "if (numberOfRecipients == 0) {", "return;", "if (count == 0) {",
                      "    addView(child)",
                      "}", "", "// note"})
               \cup { << "fun onLayout() {", "createRecipientLayout(names)", "}" >>,
                      << "fun onLayout() {", "if (count == 0) {", "    addView(child)", "}",
                         "createRecipientLayout(names)", "}" >>,
                      << "fun onLayout() {", "if (numberOfRecipients == 0) {", "return;", "}",
                         "createRecipientLayout(names)", "}" >> }
          [] rule = "StrictRxSubscribeErrorHandlerRule" ->
               short({"obs.subscribe(x -> show(x))", "obs.subscribe(x -> show(x), e -> log(e))",
                      "obs.subscribe(", "x -> show(x),", "throwable -> log(throwable)",
                      "it -> show(it)",
                      ");", "// note"})
               \cup { << "obs.subscribe(", "x -> show(x),", "throwable -> log(throwable)", ");" >>,
                      << "obs.subscribe(", "x -> show(x),", ");", "obs.subscribe(x -> show(x))" >> }

InitRule ==
    /\ EngineIdle
    /\ \/ \E r \in UnitRules, p \in UnitPaths, ls \in UnitLineLists, o \in HashOrders :
             unit = [op |-> "analyze_file", rule |-> r, file_path |-> p, lines |-> ls,
                     order |-> o, done |-> FALSE, result |-> Outcome(<< >>, "none")]
       \/ \E r \in IdiomRules :
             \E p \in UnitPaths \cup {"app/Database.kt"}, ls \in IdiomLineLists(r),
                o \in HashOrders :
                unit = [op |-> "analyze_file", rule |-> r, file_path |-> p, lines |-> ls,
                        order |-> o, done |-> FALSE, result |-> Outcome(<< >>, "none")]

\* rule.analyze_file(file_path, lines), consumed to its end
AnalyzeFile ==
    /\ unit.op = "analyze_file"
    /\ ~unit.done
    /\ unit' = [unit EXCEPT !.done = TRUE,
                            !.result = analyze_file(unit.rule, unit.file_path,
                                                    unit.lines, unit.order)]
    /\ UNCHANGED engine

NextRule == AnalyzeFile

SpecRule == InitRule /\ [][NextRule]_vars

(***************************************************************************)
(* The context extractor called on one file, outside a scan                *)
(***************************************************************************)
CtxFiles ==
    { [path |-> "app/B.kt", readable |-> TRUE, reread |-> rr, lines |-> ls] :
        rr \in BOOLEAN,
        ls \in UNION { [1 .. k -> {"    addView(child)", "}"}] : k \in 0 .. MaxCtxLines } }

InitContext ==
    /\ EngineIdle
    /\ unit \in { [op |-> "_get_context_lines", file |-> f, target_line |-> t,
                    context_size |-> w, done |-> FALSE, result |-> ""] :
                    f \in CtxFiles, t \in 0 .. MaxCtxLines + 1, w \in (0 .. MaxWindow) \cup {10} }

\* self._get_context_lines(file_path, target_line, context_size)
GetContextLines ==
    /\ unit.op = "_get_context_lines"
    /\ ~unit.done
    /\ unit' = [unit EXCEPT !.done = TRUE,
                            !.result = _get_context_lines(unit.file, unit.target_line,
                                                          unit.context_size)]
    /\ UNCHANGED engine

NextContext == GetContextLines

SpecContext == InitContext /\ [][NextContext]_vars

(***************************************************************************)
(* The loop of the subscribe rule, one iteration at a time                 *)
(***************************************************************************)
\* the line lists handed to the loop: every list of at most MaxSubLines of
\* these lines, and some longer files, one of them a call whose arguments end
\* on the 18th line of the file
SubLineLists ==
    LET lines == {"obs.subscribe(x -> show(x))", "obs.subscribe(", "x -> show(x),",
                  "throwable -> log(throwable)", ");", "// note"}
        long_call == [ k \in 1 .. 18 |-> IF k = 1 THEN "obs.subscribe("
                                         ELSE IF k <= 15 THEN "// note"
                                         ELSE IF k = 16 THEN "x -> show(x),"
                                         ELSE IF k = 17 THEN "throwable -> log(throwable)"
                                         ELSE ");" ]
    IN  UNION { [1 .. k -> lines] : k \in 0 .. MaxSubLines }
        \cup { << "obs.subscribe(", "x -> show(x),", "throwable -> log(throwable)", ");" >>,
               << "obs.subscribe(", "x -> show(x),", ");", "// note",
                  "obs.subscribe(x -> show(x))" >>,
               long_call }

\* unit.i and unit.j are the indices i and j of the code (0-based), unit.buf
\* is buf, and unit.at tells whether the generator is at the outer or at the
\* inner `while`.  unit.iterations records, for every iteration of the outer
\* loop that found a subscribe call, the index it started at, the index it
\* went on with, the text it decided on and whether it yielded.
InitSubscribe ==
    /\ EngineIdle
    /\ unit = [op |-> "subscribe_loop", called |-> FALSE, file_path |-> "", lines |-> << >>,
               at |-> "outer", i |-> 0, j |-> 0, buf |-> [text |-> "", marks |-> << >>],
               yielded |-> << >>, iterations |-> << >>, done |-> FALSE]

\* rule.analyze_file(file_path, lines) is called and its generator consumed
SubscribeCall ==
    /\ unit.op = "subscribe_loop" /\ ~unit.called
    /\ \E p \in {"app/B.kt", "app/notes.txt"}, ls \in SubLineLists :
          unit' = [unit EXCEPT !.called = TRUE, !.file_path = p, !.lines = ls]
    /\ UNCHANGED engine

\* `if not self.KT_OR_JAVA.search(file_path): return`
SubscribeNotSource ==
    /\ unit.op = "subscribe_loop" /\ unit.called /\ ~unit.done
    /\ ~KT_OR_JAVA(unit.file_path)
    /\ unit' = [unit EXCEPT !.done = TRUE]
    /\ UNCHANGED engine

\* the generator is in the outer or in the inner loop of a source file
InLoop(at) ==
    /\ unit.op = "subscribe_loop" /\ unit.called /\ ~unit.done
    /\ KT_OR_JAVA(unit.file_path)
    /\ unit.at = at

\* an iteration of the outer loop on a line without a subscribe call
SubscribePlain ==
    /\ InLoop("outer")
    /\ unit.i < Len(unit.lines)
    /\ ~SUBSCRIBE_CALL(unit.lines[unit.i + 1])
    /\ unit' = [unit EXCEPT !.i = NextIndexPlain(unit.i)]
    /\ UNCHANGED engine

\* an iteration of the outer loop on a line with a subscribe call, up to the
\* inner loop
SubscribeFound ==
    /\ InLoop("outer")
    /\ unit.i < Len(unit.lines)
    /\ SUBSCRIBE_CALL(unit.lines[unit.i + 1])
    /\ unit' = [unit EXCEPT !.at = "inner", !.buf = Text(unit.lines[unit.i + 1]),
                            !.j = unit.i + 1]
    /\ UNCHANGED engine

\* an iteration of the inner loop
SubscribeAccumulate ==
    /\ InLoop("inner")
    /\ unit.j < max_look(unit.lines, unit.i) /\ Unbalanced(unit.buf)
    /\ unit' = [unit EXCEPT !.buf = AppendLine(unit.buf, unit.lines[unit.j + 1]),
                            !.j = unit.j + 1]
    /\ UNCHANGED engine

\* the rest of the iteration of the outer loop, after the inner loop
SubscribeDecide ==
    /\ InLoop("inner")
    /\ ~(unit.j < max_look(unit.lines, unit.i) /\ Unbalanced(unit.buf))
    /\ unit' = [unit EXCEPT
                   !.at = "outer",
                   !.i = unit.j,
                   !.yielded =
                       IF MissingOnError(unit.buf.marks)
                       THEN Append(@, Payload(unit.i + 1, Strip(unit.lines[unit.i + 1]),
                                              SubscribeDetail, "HIGH"))
                       ELSE @,
                   !.iterations = Append(@, [at |-> unit.i, next |-> unit.j,
                                             buf |-> unit.buf.text,
                                             reported |-> MissingOnError(unit.buf.marks)])]
    /\ UNCHANGED engine

\* the condition of the outer loop fails and the generator is exhausted
SubscribeExhausted ==
    /\ InLoop("outer")
    /\ unit.i >= Len(unit.lines)
    /\ unit' = [unit EXCEPT !.done = TRUE]
    /\ UNCHANGED engine

NextSubscribe ==
    \/ SubscribeCall \/ SubscribeNotSource \/ SubscribePlain \/ SubscribeFound
    \/ SubscribeAccumulate \/ SubscribeDecide \/ SubscribeExhausted

SpecSubscribe == InitSubscribe /\ [][NextSubscribe]_vars

\* scan_repository consumes the generator in a `for` statement, which asks
\* for the next item until the generator is exhausted
SpecSubscribeLive == SpecSubscribe /\ WF_vars(NextSubscribe)

(***************************************************************************)
(* One rule instance called on one file after another                      *)
(***************************************************************************)
\* The locals of a call of analyze_file as the code assigns them before its
\* loop (UnsafeStartActivityRule lines 58-59, StrictWorkerFactoryNullSafetyRule
\* lines 5689-5693); frame holds the locals the instance's previous call ended
\* with.  A rule that kept its flags in the instance would go on from them:
EnterAnalyze_Kept(rule, frame) ==
    IF DOMAIN frame /= {"yielded"} THEN [frame EXCEPT !.yielded = << >>]
    ELSE IF rule = "UnsafeStartActivityRule"
    THEN [try_block_stack |-> << >>, catch_activity_not_found |-> FALSE, yielded |-> << >>]
    ELSE [in_worker_factory |-> FALSE, in_create_worker |-> FALSE, method_start |-> 0,
          has_safe_get |-> FALSE, has_nullable_return |-> FALSE, yielded |-> << >>]

\* the code assigns every local anew and reads nothing of the previous call
EnterAnalyze(rule, frame) ==
    IF rule = "UnsafeStartActivityRule"
    THEN [try_block_stack |-> << >>, catch_activity_not_found |-> FALSE, yielded |-> << >>]
    ELSE [in_worker_factory |-> FALSE, in_create_worker |-> FALSE, method_start |-> 0,
          has_safe_get |-> FALSE, has_nullable_return |-> FALSE, yielded |-> << >>]

\* One instance of a rule and the files it will be called on, in order: at
\* most MaxCalls files, each one of two paths with one of the line lists of
\* its rule.  unit.running tells whether a generator of the instance is being
\* consumed, unit.file_path, unit.lines and unit.i are its arguments and the
\* 1-based index of the line its loop is at, unit.frame its locals, which stay
\* as they were when the generator ended until the next call begins.
\* unit.results records every finished call: its arguments, what it yielded
\* and the locals it ended with.
InitInstance ==
    LET files(rule) ==
            IF rule = "UnsafeStartActivityRule"
            THEN { << "try {" >>,
                   << "startActivity(intent)" >>,
                   << "try {", "startActivity(intent)" >>,
                   << "try {", "startActivity(intent)",
                      "} catch (ActivityNotFoundException e) {", "}" >>,
                   << "}", "startActivity(new Intent(Intent.ACTION_VIEW, uri))" >>,
                   << "// note", "try {", "try {", "}" >> }
            ELSE { << "class K9WorkerFactory : WorkerFactory() {",
                      "override fun createWorker(): ListenableWorker {" >>,
                   << "return getKoin().get(workerClass)" >>,
                   << "class K9WorkerFactory : WorkerFactory() {",
                      "override fun createWorker(): ListenableWorker {",
                      "return getKoin().get(workerClass)", "}" >>,
                   << "class K9WorkerFactory : WorkerFactory() {",
                      "override fun createWorker(): ListenableWorker? {",
                      "val w = getKoin().getOrNull(workerClass)",
                      "return getKoin().get(workerClass)" >>,
                   << "class K9WorkerFactory : WorkerFactory() {",
                      "override fun createWorker(): ListenableWorker {",
                      "", "}", "return getKoin().get(workerClass)" >>,
                   << "}", "// note", "return getKoin().get(workerClass)" >> }
    IN  /\ EngineIdle
        /\ \E rule \in {"UnsafeStartActivityRule", "StrictWorkerFactoryNullSafetyRule"},
              n \in 1 .. MaxCalls :
              \E q \in [1 .. n -> {"app/A.java", "app/B.kt"} \X files(rule)] :
                 unit = [op |-> "instance", rule |-> rule,
                         queue |-> [ k \in 1 .. n |-> [file_path |-> q[k][1],
                                                       lines |-> q[k][2]] ],
                         running |-> FALSE, file_path |-> "", lines |-> << >>, i |-> 0,
                         frame |-> [yielded |-> << >>], results |-> << >>]

\* rule.analyze_file(file_path, lines) is called on the next file and its
\* generator started.  StrictWorkerFactoryNullSafetyRule returns at once,
\* before it assigns a local, when the path does not end in ".kt".
InstanceCall ==
    /\ unit.op = "instance" /\ ~unit.running /\ unit.queue /= << >>
    /\ LET file == Head(unit.queue)
       IN  IF unit.rule = "StrictWorkerFactoryNullSafetyRule" /\ ~EndsWith(file.file_path, ".kt")
           THEN unit' = [unit EXCEPT
                            !.queue = Tail(@),
                            !.results = Append(@, [file_path |-> file.file_path,
                                                   lines |-> file.lines,
                                                   yielded |-> << >>,
                                                   left |-> unit.frame])]
           ELSE unit' = [unit EXCEPT
                            !.running = TRUE, !.file_path = file.file_path,
                            !.lines = file.lines, !.i = 1,
                            !.frame = EnterAnalyze(unit.rule, unit.frame)]
    /\ UNCHANGED engine

\* one iteration of `for i, line in enumerate(lines)`
InstanceStep ==
    /\ unit.op = "instance" /\ unit.running /\ unit.i <= Len(unit.lines)
    /\ unit' = [unit EXCEPT
                   !.i = @ + 1,
                   !.frame = IF unit.rule = "UnsafeStartActivityRule"
                             THEN StartActivityStep(unit.lines, unit.i, unit.frame)
                             ELSE WorkerFactoryStep(unit.lines, unit.i, unit.frame)]
    /\ UNCHANGED engine

\* the loop is over and the generator is exhausted
InstanceReturn ==
    /\ unit.op = "instance" /\ unit.running /\ unit.i > Len(unit.lines)
    /\ unit' = [unit EXCEPT
                   !.running = FALSE,
                   !.queue = Tail(@),
                   !.results = Append(@, [file_path |-> unit.file_path,
                                          lines |-> unit.lines,
                                          yielded |-> unit.frame.yielded,
                                          left |-> unit.frame])]
    /\ UNCHANGED engine

NextInstance == InstanceCall \/ InstanceStep \/ InstanceReturn

SpecInstance == InitInstance /\ [][NextInstance]_vars

(***************************************************************************)
(* Properties                                                              *)
(***************************************************************************)
Range(seq) == { seq[i] : i \in DOMAIN seq }
Candidates == { k \in DOMAIN tree : IsCandidate(tree[k].path) }
\* the candidate files whose reading or analysis raises
Failing == { k \in Candidates : TryFile(rules, tree[k], hashOrder).error /= "none" }
ErrorLinesFor(path) ==
    { j \in DOMAIN stdout : stdout[j].kind = "error" /\ stdout[j].file_path = path }
ErrorLines == { j \in DOMAIN stdout : stdout[j].kind = "error" }
ScanOver == pc \in {"raised", "returned", "reported"}
ScanReturned == pc \in {"returned", "reported"}
\* position of a path in the tree, 0 when absent
PositionOf(path) ==
    IF \E k \in DOMAIN tree : tree[k].path = path
    THEN CHOOSE k \in DOMAIN tree : tree[k].path = path
    ELSE 0

\* C1: when reading a candidate file or running a rule on it raises, the
\* error is printed with the path of that file and the scan goes on: every
\* candidate file of the tree is opened, every readable one is handed to the
\* rules (to all of them when none raises on it), and scan_repository
\* returns instead of raising.
C1_ErrorLoggedScanContinues ==
    (ScanOver /\ rootKind = "dir") =>
        /\ pc /= "raised"
        /\ raised = "none"
        /\ \A k \in Candidates :
              /\ \E j \in DOMAIN opened : opened[j] = tree[k].path
              /\ tree[k].readable => << tree[k].path, 1 >> \in Range(calls)
              /\ k \notin Failing =>
                    \A r \in DOMAIN rules : << tree[k].path, r >> \in Range(calls)
              /\ k \in Failing => ErrorLinesFor(tree[k].path) /= {}

\* a scan has returned in which a file raised and a later file yielded Findings
C1_Witness ==
    /\ pc = "returned"
    /\ \E k \in Failing : \E m \in Candidates \ Failing :
          /\ k < m
          /\ IssuesOfFile(returned, tree[m].path) /= << >>

\* C2: with one unreadable file added to the tree, the Findings of every
\* other file are those of the scan without it, the scan returns without
\* raising, and one error line names the added file.
C2_UnreadableFileFrame ==
    (run = 2 /\ prev.kind = "add_unreadable") =>
        /\ pc /= "raised"
        /\ ScanReturned =>
              /\ raised = "none"
              /\ Cardinality(ErrorLinesFor(ExtraPath)) = 1
              /\ \A k \in DOMAIN prev.tree :
                    IssuesOfFile(returned, prev.tree[k].path)
                        = IssuesOfFile(prev.issues, prev.tree[k].path)

\* the second scan returned Findings for a file enumerated after the added
\* unreadable file
C2_Witness ==
    /\ run = 2 /\ pc = "returned" /\ prev.kind = "add_unreadable"
    /\ \E i \in DOMAIN returned : PositionOf(returned[i].file_path) > prev.arg

\* C3: with one rule removed from the rule list, the Findings of every other
\* rule are those of the scan with the full list.
C3_RuleIsolation ==
    (run = 2 /\ prev.kind = "remove_rule" /\ ScanReturned) =>
        LET removed == prev.rules[prev.arg]
        IN  SelectSeq(returned, LAMBDA x : x.rule_name /= removed)
              = SelectSeq(prev.issues, LAMBDA x : x.rule_name /= removed)

\* C4: with the rules run in another order, every file has the same set of
\* Findings as with the rules in registration order.
C4_RuleOrderIndependence ==
    (run = 2 /\ prev.kind = "permute_rules" /\ ScanReturned) =>
        \A k \in DOMAIN tree :
            Range(IssuesOfFile(returned, tree[k].path))
              = Range(IssuesOfFile(prev.issues, tree[k].path))

\* C5: two consecutive scans of the same tree with the same rule list
\* produce the same Findings with the same content.
C5_Determinism ==
    (run = 2 /\ prev.kind = "restart" /\ ScanReturned) =>
        Range(returned) = Range(prev.issues)

\* C6: constructing the scanner with an empty rule list raises to the caller
\* at once: the scan is never entered, no file is enumerated, opened or
\* analysed.
C6_EmptyRuleListRejected ==
    (Len(rules) = 0 /\ pc /= "start") =>
        /\ pc = "ctor_failed"
        /\ raised = "ValueError"
        /\ caller = "none"
        /\ idx = 0
        /\ opened = << >>
        /\ calls = << >>

\* the constructor has raised on an empty rule list over a tree with files
C6_Witness == pc = "ctor_failed" /\ Len(rules) = 0 /\ tree /= << >>

\* C7 as claimed: a scan of a root that is missing or not a directory never
\* returns normally, an error reaches the caller instead.
C7_BadRootIsFatal ==
    rootKind /= "dir" => ~ScanReturned

\* C7 as amended: main() checks the root before it scans; for a root that is
\* missing or not a directory it prints an error message and returns, never
\* entering the scan, and nothing is raised or opened.  scan_repository
\* called on such a root raises nothing: it enumerates no file, prints no
\* error and returns the empty list.
C7_BadRootMainChecks ==
    rootKind /= "dir" =>
        /\ caller /= "main"
        /\ pc /= "main_scan"
        /\ raised \in {"none", "ValueError"}
        /\ raised = "ValueError" => pc = "ctor_failed"
        /\ opened = << >>
        /\ pc = "exited" =>
              /\ stdout[Len(stdout)].kind = "not_a_directory"
              /\ caller = "none"
        /\ ScanReturned => returned = << >> /\ ErrorLines = {}

\* main() has refused a root that is not a directory
C7_Witness == rootKind /= "dir" /\ pc = "exited"

\* C8 as claimed: the result of a scan names every file that could not be
\* read or analysed.
C8_ResultRecordsFailedFiles ==
    ScanReturned =>
        \A k \in Failing : \E i \in DOMAIN returned : returned[i].file_path = tree[k].path

\* C8 as amended: a scan in which files could not be read or analysed
\* returns normally with the Findings collected; each such file is reported
\* by exactly one printed error line carrying its path and no other file has
\* an error line, while the returned list holds Findings only and has no
\* entry for an unreadable file.
C8_FailedFilesArePrinted ==
    (ScanReturned /\ rootKind = "dir") =>
        /\ raised = "none"
        /\ returned = all_issues
        /\ Cardinality(ErrorLines) = Cardinality(Failing)
        /\ \A k \in Failing : Cardinality(ErrorLinesFor(tree[k].path)) = 1
        /\ \A k \in DOMAIN tree :
              ~tree[k].readable => IssuesOfFile(returned, tree[k].path) = << >>
        /\ \A i \in DOMAIN returned :
              DOMAIN returned[i] = {"file_path", "line_num", "issue_type", "code",
                                    "context_code", "suggestion", "rule_name", "detail"}

\* a scan returned Findings although one file of the tree was unreadable
C8_Witness ==
    /\ pc = "returned"
    /\ returned /= << >>
    /\ Cardinality({ k \in Candidates : ~tree[k].readable }) = 1

\* C9: every Finding of the returned list has a severity field, whose value
\* is HIGH, MEDIUM or LOW and is the severity the rule gave the occurrence.
C9_FindingCarriesSeverity ==
    ScanReturned =>
        \A i \in DOMAIN returned :
            /\ "severity" \in DOMAIN returned[i]
            /\ returned[i].severity \in {"HIGH", "MEDIUM", "LOW"}
            /\ returned[i].severity = payloads[i].severity

\* C10: for every Finding the report has an entry with its line number,
\* issue type, code, context, suggestion and detail whose marker is the one
\* of the severity the rule gave the occurrence.
C10_ReportShowsSeverity ==
    pc = "reported" =>
        \A i \in DOMAIN returned :
            \E j \in DOMAIN stdout :
                /\ stdout[j].kind = "issue"
                /\ stdout[j].file_path = returned[i].file_path
                /\ stdout[j].line_num = returned[i].line_num
                /\ stdout[j].issue_type = returned[i].issue_type
                /\ stdout[j].code = returned[i].code
                /\ stdout[j].context = returned[i].context_code
                /\ stdout[j].suggestion = returned[i].suggestion
                /\ stdout[j].detail = returned[i].detail
                /\ stdout[j].detail_printed = (returned[i].detail /= "")
                /\ stdout[j].icon = SeverityIcon(payloads[i].severity)

(***************************************************************************)
(* Properties of a single rule call                                        *)
(***************************************************************************)
\* a rule has been called on one file and its generator consumed
UnitAnalyzed == unit.op = "analyze_file" /\ unit.done

\* C11: every payload a rule yields for a file, the empty file included,
\* carries a line number n with 1 <= n <= the number of lines of the file.
C11_LineNumberInFile ==
    UnitAnalyzed =>
        \A k \in DOMAIN unit.result.yielded :
            /\ 1 <= unit.result.yielded[k].line_num
            /\ unit.result.yielded[k].line_num <= Len(unit.lines)

(***************************************************************************)
(* Properties of the report                                                *)
(***************************************************************************)
\* the file headers and the issue entries of the report, in printed order
ReportBody == SelectSeq(stdout, LAMBDA e : e.kind \in {"file", "issue"})

\* the position of the last file header at or before the j-th entry, or 0
HeaderOf(body, j) ==
    LET hs == { i \in 1 .. j : body[i].kind = "file" }
    IN  IF hs = {} THEN 0 ELSE CHOOSE i \in hs : \A h \in hs : h <= i

\* C12: in the report every file has one header, every Finding is printed
\* once under the header of its own file, and the Findings under a header
\* are in ascending order of line number, whatever the order in which the
\* scan appended them.
C12_ReportGroupedAndSorted ==
    pc = "reported" =>
        LET body == ReportBody
            entries == { j \in DOMAIN body : body[j].kind = "issue" }
        IN  /\ \A i, j \in DOMAIN body :
                  (i /= j /\ body[i].kind = "file" /\ body[j].kind = "file")
                      => body[i].file_path /= body[j].file_path
            /\ \A j \in entries :
                  /\ HeaderOf(body, j) /= 0
                  /\ body[HeaderOf(body, j)].file_path = body[j].file_path
            /\ \A j \in entries :
                  (j - 1) \in entries => body[j - 1].line_num <= body[j].line_num
            /\ Cardinality(entries) = Len(returned)
            /\ \A k \in DOMAIN tree :
                  Cardinality({ j \in entries : body[j].file_path = tree[k].path })
                      = Len(IssuesOfFile(returned, tree[k].path))

\* a report was printed for a scan that found issues in two files and
\* appended the Findings of one file out of line order
C12_Witness ==
    /\ pc = "reported"
    /\ \E i, j \in DOMAIN returned :
          /\ i < j
          /\ returned[i].file_path = returned[j].file_path
          /\ returned[i].line_num > returned[j].line_num
    /\ \E i, j \in DOMAIN returned : returned[i].file_path /= returned[j].file_path

(***************************************************************************)
(* Properties of the context extractor                                     *)
(***************************************************************************)
\* the context extractor has been called on a file that could be opened
ContextExtracted == unit.op = "_get_context_lines" /\ unit.done /\ unit.file.reread

\* C13: for every target line and window size the context extractor indexes
\* the line list only at lines 1 .. total_lines: every index of its loop is a
\* line of the file inside the window around the target, and no index error
\* occurs.
C13_ContextWithinFile ==
    ContextExtracted =>
        LET n == Len(unit.file.lines)
            t == unit.target_line
            w == unit.context_size
            r == ContextRange(n, t, w)
        IN  /\ \A k \in DOMAIN r :
                  /\ 1 <= r[k] + 1 /\ r[k] + 1 <= n
                  /\ t - w <= r[k] + 1 /\ r[k] + 1 <= t + w
            /\ unit.result /= ContextError("list index out of range")

\* the extractor returned a non-empty context for a target whose window
\* reaches before the first and beyond the last line of the file
C13_Witness ==
    /\ ContextExtracted
    /\ unit.target_line - unit.context_size < 1
    /\ unit.target_line + unit.context_size > Len(unit.file.lines)
    /\ unit.target_line \in 1 .. Len(unit.file.lines)
    /\ unit.result /= ""

\* C14: for target line t and window w on a file of n lines the context is
\* the lines max(1, t-w) .. min(n, t+w) in ascending order, one per row,
\* each prefixed with its own 1-based number, and the row of line t, and no
\* other row, carries the marker.
C14_ContextBlock ==
    ContextExtracted =>
        LET n == Len(unit.file.lines)
            t == unit.target_line
            w == unit.context_size
            lo == Max(1, t - w)
            hi == Min(n, t + w)
            Row(m) == (IF m = t THEN ">>> " ELSE "    ")
                      \o Pad4(m) \o ": " \o unit.file.lines[m]
        IN  unit.result = Join([ k \in 1 .. Max(0, hi - lo + 1) |-> Row(lo + k - 1) ])

\* the extractor returned the context of a target in the interior of a file:
\* the window is cut by neither end of the file and has lines on both sides
C14_Witness ==
    /\ ContextExtracted
    /\ unit.context_size >= 1
    /\ unit.target_line - unit.context_size > 1
    /\ unit.target_line + unit.context_size < Len(unit.file.lines)
    /\ unit.result /= ""

(***************************************************************************)
(* Properties of a scan whose files change while it runs                   *)
(***************************************************************************)
\* the files the scan loop read and the context extractor could not open
Vanished == { k \in Candidates : tree[k].readable /\ ~tree[k].reread }

\* C15: when a file cannot be read at context extraction, nothing is raised
\* and no error is printed for the file: every payload the rules yielded is
\* still added to the result as a Finding, and the context of each Finding
\* of that file is the diagnostic string.
C15_ContextFailureKeepsFinding ==
    (ScanReturned /\ rootKind = "dir") =>
        /\ raised = "none"
        /\ Len(returned) = Len(payloads)
        /\ \A i \in DOMAIN returned :
              /\ returned[i].line_num = payloads[i].line_num
              /\ returned[i].code = payloads[i].code
              /\ \A k \in Vanished :
                    returned[i].file_path = tree[k].path =>
                        returned[i].context_code =
                            "Unable to get context code: [Errno 2] No such file or directory: '"
                            \o tree[k].path \o "'"
        /\ \A k \in Vanished \ Failing : ErrorLinesFor(tree[k].path) = {}

\* a scan returned a Finding for a file that was gone when its context was
\* read, and Findings for another file
C15_Witness ==
    /\ pc = "returned"
    /\ \E k \in Vanished : IssuesOfFile(returned, tree[k].path) /= << >>
    /\ \E k \in Candidates \ Vanished : IssuesOfFile(returned, tree[k].path) /= << >>

(***************************************************************************)
(* Properties of a single rule call, continued                             *)
(***************************************************************************)
\* C16: for every list of text lines no rule's analysis raises: the
\* generator of the rule is consumed to its end without an exception.
C16_NoRuleRaises ==
    UnitAnalyzed => unit.result.error = "none"

NullableAnalyzed == UnitAnalyzed /\ unit.rule = "UnsafeNullableObjectAccessRule"

\* line i holds a call on an object taken as nullable whose enclosing method
\* cannot be resolved: no method start or no method end is found
UnresolvedCall(lines, i) ==
    /\ IsNullableCall(lines, i)
    /\ _is_likely_nullable(lines, METHOD_CALL_PATTERN(lines[i]).object)
    /\ \/ _find_method_start(lines, i) = -1
       \/ _find_method_end(lines, i) = -1

\* the payloads yielded for line i
PayloadsAt(ys, i) == SelectSeq(ys, LAMBDA y : y.line_num = i)

\* C17 as claimed, on UnsafeNullableObjectAccessRule, one of the two rules
\* the claim names: an occurrence whose enclosing method cannot be resolved
\* is skipped, no payload is yielded for its line.
C17_UnresolvedMethodSkipped ==
    NullableAnalyzed =>
        \A i \in DOMAIN unit.lines :
            UnresolvedCall(unit.lines, i) => PayloadsAt(unit.result.yielded, i) = << >>

\* C17 as amended, for UnsafeNullableObjectAccessRule only: a call on an
\* object the rule takes as nullable whose enclosing method cannot be
\* resolved is taken as unguarded: the rule does not raise, yields exactly
\* one HIGH payload for its line, and goes on with the lines after it.
C17_UnresolvedMethodReported ==
    NullableAnalyzed =>
        /\ unit.result.error = "none"
        /\ \A i \in DOMAIN unit.lines :
              UnresolvedCall(unit.lines, i) =>
                  LET ys == PayloadsAt(unit.result.yielded, i)
                  IN  /\ Len(ys) = 1
                      /\ ys[1].severity = "HIGH"
                      /\ ys[1].code = Strip(unit.lines[i])

\* the rule met a call whose method is unresolved and yielded a payload for
\* a later line of the same file
C17_Witness ==
    /\ NullableAnalyzed
    /\ \E i, j \in DOMAIN unit.lines :
          /\ i < j
          /\ UnresolvedCall(unit.lines, i)
          /\ PayloadsAt(unit.result.yielded, j) /= << >>

\* C18: for the Kotlin file 'val x: String? = null' / 'x.length()' the rule
\* yields exactly one payload, of severity HIGH, at line 2.
C18_UnguardedDereferenceFlagged ==
    (/\ NullableAnalyzed /\ unit.file_path = "app/B.kt"
     /\ unit.lines = << "val x: String? = null", "x.length()" >>) =>
        /\ Len(unit.result.yielded) = 1
        /\ unit.result.yielded[1].severity = "HIGH"
        /\ unit.result.yielded[1].line_num = 2

\* C19: for the Kotlin file 'val x: String? = null' /
\* 'if (x != null) { x.length() }' the rule yields nothing and does not
\* raise.
C19_GuardedDereferenceClean ==
    (/\ NullableAnalyzed /\ unit.file_path = "app/B.kt"
     /\ unit.lines = << "val x: String? = null", "if (x != null) { x.length() }" >>) =>
        /\ unit.result.yielded = << >>
        /\ unit.result.error = "none"

\* the rule has analysed the guarded Kotlin file
C19_Witness ==
    /\ NullableAnalyzed
    /\ unit.file_path = "app/B.kt"
    /\ unit.lines = << "val x: String? = null", "if (x != null) { x.length() }" >>

(***************************************************************************)
(* Properties of a rule instance called on several files                   *)
(***************************************************************************)
\* a call of the rule instance has ended
InstanceCalled(k) == unit.op = "instance" /\ k \in DOMAIN unit.results

\* the flags a call of the rule instance ended with are set
FlagsLeft(k) ==
    LET left == unit.results[k].left
    IN  /\ DOMAIN left /= {"yielded"}
        /\ IF unit.rule = "UnsafeStartActivityRule"
           THEN left.try_block_stack /= << >>
           ELSE left.in_worker_factory /\ left.in_create_worker

\* C20: a rule instance is stateless across files.  Whatever files the
\* instance analysed before, two of its calls on the same path and the same
\* lines yield the same payloads, and a call begins its loop with none of the
\* scanning state of an earlier call: its flags are unset and its stack empty.
C20_RuleStatelessAcrossFiles ==
    /\ \A a, b \in 1 .. MaxCalls :
          (InstanceCalled(a) /\ InstanceCalled(b)
           /\ unit.results[a].file_path = unit.results[b].file_path
           /\ unit.results[a].lines = unit.results[b].lines)
          => unit.results[a].yielded = unit.results[b].yielded
    /\ (unit.op = "instance" /\ unit.running /\ unit.i = 1) =>
          IF unit.rule = "UnsafeStartActivityRule"
          THEN unit.frame.try_block_stack = << >> /\ ~unit.frame.catch_activity_not_found
          ELSE /\ ~unit.frame.in_worker_factory /\ ~unit.frame.in_create_worker
               /\ ~unit.frame.has_safe_get /\ ~unit.frame.has_nullable_return

\* the instance analysed a file first of all and again right after a file
\* that it left with its flags set, and the file is one that yields
\* something else when the loop begins with those flags
C20_Witness ==
    /\ InstanceCalled(3) /\ FlagsLeft(2)
    /\ unit.results[1].file_path = unit.results[3].file_path
    /\ unit.results[1].lines = unit.results[3].lines
    /\ unit.results[3].lines \in { << "startActivity(intent)" >>,
                                   << "return getKoin().get(workerClass)" >> }
    /\ unit.results[3].file_path = "app/B.kt"

(***************************************************************************)
(* Properties of the scan result                                           *)
(***************************************************************************)
\* no rule yields anything for any file of the tree the scan reads
NothingMatches ==
    /\ rootKind = "dir"
    /\ \A k \in Candidates : TryFile(rules, tree[k], hashOrder).payloads = << >>
    /\ Failing = {}

\* C21: when no rule matches anything in the tree (a tree without candidate
\* files included), the scan does not raise and returns the empty list, and
\* the reporter prints the "no issues found" line and nothing else for it.
C21_NoMatchIsNormalOutcome ==
    (NothingMatches /\ ScanOver) =>
        /\ pc /= "raised" /\ raised = "none"
        /\ ScanReturned => returned = << >>
        /\ pc = "reported" =>
              /\ stdout /= << >>
              /\ stdout[Len(stdout)] = [kind |-> "no_issues"]
              /\ \A j \in DOMAIN stdout : stdout[j].kind \notin {"found", "file", "issue", "error"}

\* a scan that ran a rule on a candidate file found nothing and was reported
C21_Witness ==
    /\ pc = "reported" /\ NothingMatches
    /\ Candidates /= {} /\ calls /= << >>
    /\ returned = << >>
    /\ stdout[Len(stdout)].kind = "no_issues"

\* C26: a file whose analysis raises part-way leaves no Finding in the
\* returned list.
C26_FailedFileLeavesNoFinding ==
    ScanReturned =>
        \A k \in Failing : IssuesOfFile(returned, tree[k].path) = << >>

\* the rule list names no rule twice
DistinctRules == \A a, b \in DOMAIN rules : rules[a] = rules[b] => a = b

\* C27: the list a scan returns never holds two Findings with the same file
\* path, line number, rule name and detail.
C27_NoDuplicateFindings ==
    (ScanReturned /\ DistinctRules) =>
        \A i, j \in DOMAIN returned :
            ( /\ returned[i].file_path = returned[j].file_path
              /\ returned[i].line_num = returned[j].line_num
              /\ returned[i].rule_name = returned[j].rule_name
              /\ returned[i].detail = returned[j].detail ) => i = j

(***************************************************************************)
(* Properties of the method boundary finder                                *)
(***************************************************************************)
\* the number of braces open after line c, counted from line h on
RECURSIVE Depth(_, _, _)
Depth(lines, h, c) ==
    IF c < h THEN 0
    ELSE Depth(lines, h, c - 1) + CountOpen(lines[c]) - CountClose(lines[c])

\* the line holding the closing brace of the method declared on line h,
\* 0 when the method is not closed
ClosingLine(lines, h) ==
    LET cs == { c \in h .. Len(lines) :
                  /\ Depth(lines, h, c) = 0
                  /\ \E o \in h .. c : CountOpen(lines[o]) > 0 }
    IN  IF cs = {} THEN 0 ELSE CHOOSE c \in cs : \A d \in cs : c <= d

\* the declaration line of the method whose body contains line i, 0 when
\* line i is in no method body
EnclosingMethod(lines, i) ==
    LET hs == { h \in 1 .. (i - 1) : IsMethodHeader(lines[h]) /\ i < ClosingLine(lines, h) }
    IN  IF hs = {} THEN 0 ELSE CHOOSE h \in hs : \A g \in hs : g <= h

\* C23: for a matched line inside a method body the boundary finder returns
\* the declaration line of the enclosing method as start and the line of
\* that method's closing brace as end, so that start <= matched line <= end.
C23_BoundaryIsEnclosingMethod ==
    (UnitAnalyzed /\ unit.rule = "UnsafeNullableObjectAccessRule") =>
        \A i \in DOMAIN unit.lines :
            (METHOD_CALL_PATTERN(unit.lines[i]).matched /\ EnclosingMethod(unit.lines, i) /= 0) =>
                /\ _find_method_start(unit.lines, i) = EnclosingMethod(unit.lines, i)
                /\ _find_method_end(unit.lines, i) = ClosingLine(unit.lines, EnclosingMethod(unit.lines, i))
                /\ _find_method_start(unit.lines, i) <= i
                /\ i <= _find_method_end(unit.lines, i)

(***************************************************************************)
(* Properties of the severity and of the guards the rules look for         *)
(***************************************************************************)
\* the rule of that name has been called on one file
Analyzed(rule) == UnitAnalyzed /\ unit.rule = rule

\* no try block is opened on line i or before it
OutsideEveryTry(lines, i) == \A j \in 1 .. i : ~OpensTry(Strip(lines[j]))

\* C25: a finding for an occurrence without a guard of any kind, such as a
\* startActivity call outside every try block, has severity HIGH.
C25_UnguardedIsHigh ==
    Analyzed("UnsafeStartActivityRule") =>
        \A k \in DOMAIN unit.result.yielded :
            OutsideEveryTry(unit.lines, unit.result.yielded[k].line_num) =>
                unit.result.yielded[k].severity = "HIGH"

\* line i is in the body of a try block that opens on a line of its own and
\* whose catch clause, on a later line, names ActivityNotFoundException
InTryCatchingActivityNotFound(lines, i) ==
    \E t \in 1 .. (i - 1) : \E c \in (i + 1) .. Len(lines) :
        /\ lines[t] = "try {"
        /\ lines[c] = "} catch (ActivityNotFoundException e) {"
        /\ \A m \in (t + 1) .. (c - 1) : CountOpen(lines[m]) = 0 /\ CountClose(lines[m]) = 0

\* C28: a startActivity call in the body of a multi-line try block whose
\* catch clause handles ActivityNotFoundException yields no finding.
C28_CallInHandledTryIsClean ==
    Analyzed("UnsafeStartActivityRule") =>
        \A i \in DOMAIN unit.lines :
            (START_ACTIVITY_PATTERN(unit.lines[i]) /\ InTryCatchingActivityNotFound(unit.lines, i)) =>
                PayloadsAt(unit.result.yielded, i) = << >>

\* lines t..e are a try block with the single catch clause
\* `catch (SecurityException e)` and nothing else that opens or closes a block
TryWithOnlySecurityCatch(lines, t, e) ==
    /\ t < e /\ lines[t] = "try {" /\ lines[e] = "}"
    /\ \E c \in (t + 1) .. (e - 1) :
          /\ lines[c] = "} catch (SecurityException e) {"
          /\ \A m \in ((t + 1) .. (e - 1)) \ {c} :
                CountOpen(lines[m]) = 0 /\ CountClose(lines[m]) = 0

\* C29: a try/catch whose only catch clause names the single risky type
\* SecurityException is reported, HIGH when the file path contains a risky
\* context name and MEDIUM otherwise.
C29_SingleSpecificCatchReported ==
    (Analyzed("StrictExceptionHandlingRule") /\ IsCandidate(unit.file_path)) =>
        \A t, e \in DOMAIN unit.lines :
            TryWithOnlySecurityCatch(unit.lines, t, e) =>
                \E k \in DOMAIN unit.result.yielded :
                    /\ unit.result.yielded[k].line_num \in t .. e
                    /\ unit.result.yielded[k].severity =
                          IF InRiskyContext(unit.file_path) THEN "HIGH" ELSE "MEDIUM"

\* line i is in the body of an onLayout method that holds no comparison of
\* numberOfRecipients with zero up to line i
InUncheckedOnLayout(lines, i) ==
    \E h \in 1 .. (i - 1) :
        /\ ON_LAYOUT_PATTERN(Strip(lines[h]))
        /\ i < ClosingLine(lines, h)
        /\ \A m \in h .. i : ~ZERO_CHECK_PATTERN(lines[m])

\* C30: in a Kotlin file every createRecipientLayout( call in the body of
\* onLayout that no zero comparison precedes in the method yields a HIGH
\* finding, also when a nested block was opened and closed before the call.
C30_CallAfterNestedBlockReported ==
    (Analyzed("StrictEmptyRecipientHeadersRule") /\ EndsWith(unit.file_path, ".kt")) =>
        \A i \in DOMAIN unit.lines :
            (CREATE_RECIPIENT_LAYOUT_PATTERN(Strip(unit.lines[i])) /\ InUncheckedOnLayout(unit.lines, i)) =>
                \E k \in DOMAIN unit.result.yielded :
                    /\ unit.result.yielded[k].line_num = i
                    /\ unit.result.yielded[k].severity = "HIGH"

(***************************************************************************)
(* Properties of the loop of the subscribe rule                            *)
(***************************************************************************)
SubscribeLoopRuns == unit.op = "subscribe_loop" /\ unit.called

\* the text of lines a..b (0-based) joined as the rule joins them
RECURSIVE Joined(_, _, _)
Joined(lines, a, b) ==
    IF b <= a THEN Text(lines[a + 1])
    ELSE AppendLine(Joined(lines, a, b - 1), lines[b + 1])

\* the parentheses opened on lines a..b are all closed on them
Balanced(lines, a, b) ==
    CountOf(Joined(lines, a, b).marks, "(") <= CountOf(Joined(lines, a, b).marks, ")")

\* the index of the line on which the call that starts on line a is
\* complete, -1 when the file ends before
CallEnd(lines, a) ==
    LET es == { e \in a .. (Len(lines) - 1) : Balanced(lines, a, e) }
    IN  IF es = {} THEN -1 ELSE CHOOSE e \in es : \A d \in es : e <= d

\* the index of the last line the rule adds to the call that starts on line
\* a: the line that completes the call, at most the 14th line after a and at
\* most the last line of the file
AccumulatedEnd(lines, a) ==
    LET last == Min(Len(lines), a + 15) - 1
    IN  IF CallEnd(lines, a) = -1 THEN last ELSE Min(CallEnd(lines, a), last)

\* C22 as stated: for a subscribe call completed in the file, the rule
\* decides on the joined text of the whole call, whatever the number of
\* lines its arguments span.
C22_DecidesOnCompleteCall ==
    SubscribeLoopRuns =>
        \A k \in DOMAIN unit.iterations :
            LET it == unit.iterations[k]
                e == CallEnd(unit.lines, it.at)
            IN  e /= -1 =>
                  /\ it.buf = Joined(unit.lines, it.at, e).text
                  /\ it.reported = MissingOnError(Joined(unit.lines, it.at, e).marks)
                  /\ it.next = e + 1

\* C22: for a subscribe call the rule joins the following lines until the
\* parentheses of the joined text are balanced, the 14th following line has
\* been added or the file ends, decides on that text whether an onError
\* handler is missing, and goes on after the last line it added.
C22_DecidesOnAccumulatedText ==
    SubscribeLoopRuns =>
        \A k \in DOMAIN unit.iterations :
            LET it == unit.iterations[k]
                e == AccumulatedEnd(unit.lines, it.at)
            IN  /\ it.buf = Joined(unit.lines, it.at, e).text
                /\ it.reported = MissingOnError(Joined(unit.lines, it.at, e).marks)
                /\ it.next = e + 1

\* the loop has decided on a call of four lines whose second argument was
\* found, and on a call of one line
C22_Witness ==
    /\ SubscribeLoopRuns /\ unit.done
    /\ \E k \in DOMAIN unit.iterations :
          /\ unit.iterations[k].next - unit.iterations[k].at >= 3
          /\ CallEnd(unit.lines, unit.iterations[k].at) = unit.iterations[k].next - 1
          /\ ~unit.iterations[k].reported

\* every step of the generator moves forward: an iteration of the inner loop
\* raises j, and an iteration of the outer loop ends with a greater i
IndexAdvances ==
    (SubscribeLoopRuns /\ ~unit.done) =>
        \/ unit'.done
        \/ unit'.i > unit.i /\ unit'.at = "outer"
        \/ unit'.i = unit.i /\ unit.at = "outer" /\ unit'.at = "inner" /\ unit'.j > unit.i
        \/ unit'.i = unit.i /\ unit.at = "inner" /\ unit'.at = "inner" /\ unit'.j > unit.j

SubscribeLoopDone == unit.op = "subscribe_loop" /\ unit.called /\ unit.done

\* C24: the loop of the subscribe rule moves its line index forward at every
\* iteration, yields at most one finding per line, and ends.
C24_SubscribeLoopTerminates ==
    /\ [][IndexAdvances]_vars
    /\ [](SubscribeLoopRuns => Len(unit.yielded) <= Len(unit.lines))
    /\ <>SubscribeLoopDone

\* the loop has ended after an iteration that joined several lines, an
\* iteration on a line without a call, and a finding
C24_Witness ==
    /\ SubscribeLoopRuns /\ unit.done /\ unit.i = Len(unit.lines)
    /\ unit.yielded /= << >>
    /\ \E k \in DOMAIN unit.iterations :
          unit.iterations[k].next - unit.iterations[k].at >= 2
    /\ \E m \in 0 .. (Len(unit.lines) - 1) :
          /\ ~SUBSCRIBE_CALL(unit.lines[m + 1])
          /\ \A k \in DOMAIN unit.iterations :
                ~(unit.iterations[k].at <= m /\ m < unit.iterations[k].next)

====
